---- MODULE Spec2Model ----
(***************************************************************************)
(* Recursive DNS resolver: UDP front-end, recursiveResolver with its       *)
(* Redis-backed DNSCache, recursiveLookup and forwardResolver.             *)
(*                                                                         *)
(* A task is one invocation of the UDP server's 'message' handler.  Each   *)
(* action is one continuation of the asynchronous code: it runs from the   *)
(* event that resumes the task (a datagram, the completion of a Redis      *)
(* command, the return of an awaited async function) to the next await on  *)
(* I/O.                                                                    *)
(***************************************************************************)
EXTENDS Integers, Sequences, FiniteSets, TLC

VARIABLES tasks, store, redisOpen, codec

vars == <<tasks, store, redisOpen, codec>>

----------------------------------------------------------------------------
(* Enumerations of types.ts *)

QUERY == 0
RESPONSE == 1

NO_ERROR == 0
FORMAT_ERROR == 1
SERVER_FAILURE == 2
NAME_ERROR == 3
NOT_IMPLEMENTED == 4
REFUSED == 5

TYPE_A == 1
TYPE_NS == 2
TYPE_CNAME == 5
TYPE_SOA == 6
TYPE_TXT == 16
TYPE_AAAA == 28

CLASS_IN == 1

----------------------------------------------------------------------------
(* Bounds of the model *)

\* upstream queries one lookup call may send while the upstream keeps delegating
MaxIter == 2
\* depth of nested recursiveLookup invocations
MaxDepth == 2
\* upstream queries of one lookup call in the delegation-chain specification
CapIter == 17
\* upstream queries of one lookup call in the glue-delegation specification
ChainIter == 3

Tasks == {"t1", "t2"}

----------------------------------------------------------------------------
(* Data model: headers, questions, resource records, packets *)

Header(id, qr, aa, ra, rcode, qd, an, ns, ar) ==
  [id |-> id, qr |-> qr, aa |-> aa, ra |-> ra, rcode |-> rcode,
   qdcount |-> qd, ancount |-> an, nscount |-> ns, arcount |-> ar]

\* new DNSHeader({}): every field defaults to 0
DefaultHeader == Header(0, QUERY, 0, 0, NO_ERROR, 0, 0, 0, 0)

Question(name, type) == [name |-> name, type |-> type, class |-> CLASS_IN]

RR(name, type, ttl, rdlength, rdata) ==
  [name |-> name, type |-> type, class |-> CLASS_IN, ttl |-> ttl,
   rdlength |-> rdlength, rdata |-> rdata]

\* kind "packet" is a DNSPacketType object; "error" is a thrown Error object;
\* "undefined" is the JavaScript value undefined; "none" is no value at all
Packet(h, qs, an, ns, ar) ==
  [kind |-> "packet", header |-> h, questions |-> qs, answers |-> an,
   authorities |-> ns, additionals |-> ar]

ErrorObject ==
  [kind |-> "error", header |-> DefaultHeader, questions |-> <<>>,
   answers |-> <<>>, authorities |-> <<>>, additionals |-> <<>>]

Undefined == [ErrorObject EXCEPT !.kind = "undefined"]

NoPacket == [ErrorObject EXCEPT !.kind = "none"]

\* new DNSPacket(data): a missing header becomes the default header, missing
\* sections become []; encode() writes the header fields as they are
DNSPacket(data) ==
  IF data.kind = "packet" THEN data
  ELSE Packet(DefaultHeader, <<>>, <<>>, <<>>, <<>>)

\* DNSPacket.encodeRaw followed by what a receiver decodes from the bytes
encodeRaw(data) == DNSPacket(data)

SelectSeqByType(s, type) == SelectSeq(s, LAMBDA r : r.type = type)

----------------------------------------------------------------------------
(* Wire codec: buffers are sequences of bytes, strings are sequences of
   character codes (JavaScript strings of ASCII characters) *)

\* character codes of one-character strings
CharCode(c) ==
  CASE c = "." -> 46 [] c = ":" -> 58
    [] c = "0" -> 48 [] c = "1" -> 49 [] c = "2" -> 50 [] c = "3" -> 51
    [] c = "a" -> 97 [] c = "b" -> 98 [] c = "c" -> 99 [] c = "d" -> 100

\* a string literal written as a tuple of its characters
Str(chars) == [i \in 1..Len(chars) |-> CharCode(chars[i])]

\* Buffer.from(array): every element is converted to a byte
ToUint8(n) == n % 256

\* buffer.writeUInt16BE / buffer.writeUInt32BE
WriteUInt16BE(n) == <<(n \div 256) % 256, n % 256>>
WriteUInt32BE(n) == WriteUInt16BE(n \div 65536) \o WriteUInt16BE(n % 65536)

\* buffer.readUInt16BE(offset) / buffer.readUInt32BE(offset); offsets count from 0
InRange(buffer, offset, n) == offset >= 0 /\ offset + n <= Len(buffer)
ReadUInt16BE(buffer, offset) == buffer[offset + 1] * 256 + buffer[offset + 2]
ReadUInt32BE(buffer, offset) ==
  ReadUInt16BE(buffer, offset) * 65536 + ReadUInt16BE(buffer, offset + 2)

\* buffer.subarray(start, end): both ends are clamped to the buffer
Subarray(buffer, start, end) ==
  SubSeq(buffer, start + 1, IF end > Len(buffer) THEN Len(buffer) ELSE end)

\* Number.prototype.toString(): decimal digits
RECURSIVE ToDecimal(_)
ToDecimal(n) ==
  IF n < 10 THEN <<48 + n>> ELSE ToDecimal(n \div 10) \o <<48 + (n % 10)>>

\* value of a digit character in a radix, -1 when it is no digit of the radix
DigitValue(c, radix) ==
  LET v == IF c >= 48 /\ c <= 57 THEN c - 48
           ELSE IF c >= 97 /\ c <= 122 THEN c - 87
           ELSE IF c >= 65 /\ c <= 90 THEN c - 55
           ELSE -1
  IN IF v < radix THEN v ELSE -1

\* parseInt(string, radix): the leading digits; NaN (here -1) when there are none
RECURSIVE ParseDigits(_, _, _, _)
ParseDigits(s, i, radix, acc) ==
  IF i > Len(s) \/ DigitValue(s[i], radix) = -1 THEN acc
  ELSE ParseDigits(s, i + 1, radix, acc * radix + DigitValue(s[i], radix))

parseInt(s, radix) ==
  IF Len(s) = 0 \/ DigitValue(s[1], radix) = -1 THEN -1
  ELSE ParseDigits(s, 1, radix, 0)

\* NaN becomes 0 in a Buffer
OctetOf(n) == IF n = -1 THEN 0 ELSE ToUint8(n)

\* String.prototype.split(separator) with a one-character separator
RECURSIVE Split(_, _)
Split(s, sep) ==
  IF \A i \in 1..Len(s) : s[i] # sep THEN <<s>>
  ELSE LET i == CHOOSE j \in 1..Len(s) :
                  s[j] = sep /\ \A k \in 1..(j - 1) : s[k] # sep
       IN <<SubSeq(s, 1, i - 1)>> \o Split(SubSeq(s, i + 1, Len(s)), sep)

\* Array.prototype.join(separator)
RECURSIVE Join(_, _)
Join(parts, sep) ==
  IF Len(parts) = 0 THEN <<>>
  ELSE IF Len(parts) = 1 THEN parts[1]
  ELSE parts[1] \o <<sep>> \o Join(Tail(parts), sep)

\* String.prototype.indexOf(searchString): -1 when it does not occur
indexOf(s, sub) ==
  LET hits == {i \in 0..(Len(s) - Len(sub)) : SubSeq(s, i + 1, i + Len(sub)) = sub}
  IN IF hits = {} THEN -1 ELSE CHOOSE i \in hits : \A j \in hits : i <= j

RECURSIVE Flatten(_)
Flatten(seqs) == IF Len(seqs) = 0 THEN <<>> ELSE Head(seqs) \o Flatten(Tail(seqs))

\* encodePointer(offset): two 1 bits and the low 14 bits of the offset
encodePointer(offset) == WriteUInt16BE(49152 + (offset % 16384))

\* isPointer(buffer, offset): the two high bits of the byte are 11
isPointer(buffer, offset) == buffer[offset + 1] >= 192

\* decodePointer(pointerBuffer): the low 14 bits
decodePointer(pointerBuffer) == ReadUInt16BE(pointerBuffer, 0) % 16384

\* encodedLabels: the keys of the object in insertion order, with their offsets
NoLabels == <<>>

HasLabel(encodedLabels, name) ==
  \E i \in 1..Len(encodedLabels) : encodedLabels[i].name = name

LabelOffset(encodedLabels, name) ==
  encodedLabels[CHOOSE i \in 1..Len(encodedLabels) : encodedLabels[i].name = name].offset

\* "for (let label in encodedLabels)": the first key that occurs in the name
FirstMatch(encodedLabels, domainName) ==
  LET hits == {i \in 1..Len(encodedLabels) :
                 indexOf(domainName, encodedLabels[i].name) # -1}
  IN IF hits = {} THEN 0 ELSE CHOOSE i \in hits : \A j \in hits : i <= j

\* labels of a name as length-prefixed bytes; empty labels are dropped
LabelBytes(labelSequence) ==
  LET labels == SelectSeq(Split(labelSequence, 46), LAMBDA l : Len(l) > 0)
  IN Flatten([i \in 1..Len(labels) |-> <<ToUint8(Len(labels[i]))>> \o labels[i]])

\* "const x = e; ..." : the rest of a block with x bound to the value of e
Let(v, F(_)) == F(v)

\* encodeDomainName(domainName, encodedLabels, nextOffset): the bytes and the
\* table after the call
encodeDomainName(domainName, encodedLabels, nextOffset) ==
  Let(HasLabel(encodedLabels, domainName), LAMBDA whole :
  Let(FirstMatch(encodedLabels, domainName), LAMBDA m :
  Let(IF whole THEN 0
      ELSE IF m = 0 THEN -1
      ELSE indexOf(domainName, encodedLabels[m].name), LAMBDA index :
  Let(IF whole THEN encodePointer(LabelOffset(encodedLabels, domainName))
      ELSE IF m = 0 THEN <<>>
      ELSE encodePointer(encodedLabels[m].offset), LAMBDA pointer :
    IF index = 0
    THEN [bytes |-> pointer, labels |-> encodedLabels]
    ELSE [bytes |-> LabelBytes(IF index > 0 THEN SubSeq(domainName, 1, index)
                               ELSE domainName)
                      \o (IF Len(pointer) > 0 THEN pointer ELSE <<0>>),
          labels |-> IF nextOffset # 0
                     THEN Append(encodedLabels, [name |-> domainName, offset |-> nextOffset])
                     ELSE encodedLabels]))))

\* depth of nested calls a decoder may reach before the runtime's stack is
\* exhausted and a RangeError is thrown
StackLimit == 6

\* an exception thrown while a name is decoded; stack tells that it is the
\* RangeError of the exhausted call stack
DecodeError == [ok |-> FALSE, name |-> <<>>, next |-> 0, stack |-> FALSE]

StackExhausted == [DecodeError EXCEPT !.stack = TRUE]

DecodedName(name, next) == [ok |-> TRUE, name |-> name, next |-> next, stack |-> FALSE]

\* decodeDomainName(buffer, offset): domainName and nextOffset, or an exception
RECURSIVE DecodeLabels(_, _, _, _)
DecodeLabels(buffer, startIndex, labels, depth) ==
  IF startIndex >= Len(buffer)
  THEN DecodedName(Join(labels, 46), startIndex)
  ELSE IF isPointer(buffer, startIndex)
  THEN IF ~InRange(buffer, startIndex, 2) THEN DecodeError
       ELSE IF depth >= StackLimit THEN StackExhausted
       ELSE Let(DecodeLabels(buffer,
                             decodePointer(Subarray(buffer, startIndex, startIndex + 2)),
                             <<>>, depth + 1), LAMBDA target :
              IF ~target.ok THEN target
              ELSE DecodedName(Join(Append(labels, target.name), 46), startIndex + 2))
  ELSE Let(buffer[startIndex + 1], LAMBDA labelLength :
         IF labelLength = 0
         THEN DecodedName(Join(labels, 46), startIndex + 1)
         ELSE DecodeLabels(buffer, startIndex + labelLength + 1,
                           Append(labels, Subarray(buffer, startIndex + 1,
                                                   startIndex + 1 + labelLength)),
                           depth))

decodeDomainName(buffer, offset) == DecodeLabels(buffer, offset, <<>>, 0)

\* a | b on unsigned integers
RECURSIVE BitOr(_, _)
BitOr(a, b) ==
  IF a = 0 THEN b
  ELSE IF b = 0 THEN a
  ELSE (IF a % 2 = 1 \/ b % 2 = 1 THEN 1 ELSE 0) + 2 * BitOr(a \div 2, b \div 2)

\* DNSHeaderType with all its fields
WireHeader(h, opcode, tc, rd, z) ==
  [id |-> h.id, qr |-> h.qr, opcode |-> opcode, aa |-> h.aa, tc |-> tc, rd |-> rd,
   ra |-> h.ra, z |-> z, rcode |-> h.rcode, qdcount |-> h.qdcount,
   ancount |-> h.ancount, nscount |-> h.nscount, arcount |-> h.arcount]

\* DNSHeader.encode: 12 bytes
DNSHeader_encode(h) ==
  LET flags == BitOr(h.qr * 32768,
               BitOr(h.opcode * 2048,
               BitOr(h.aa * 1024,
               BitOr(h.tc * 512,
               BitOr(h.rd * 256,
               BitOr(h.ra * 128,
               BitOr(h.z * 16, h.rcode)))))))
  IN WriteUInt16BE(h.id) \o WriteUInt16BE(flags) \o WriteUInt16BE(h.qdcount)
     \o WriteUInt16BE(h.ancount) \o WriteUInt16BE(h.nscount) \o WriteUInt16BE(h.arcount)

\* DNSHeader.decode: every field is shifted out of the flags word and masked
DNSHeader_decode(buffer, offset) ==
  LET flags == ReadUInt16BE(buffer, offset + 2)
  IN [id |-> ReadUInt16BE(buffer, offset),
      qr |-> (flags \div 32768) % 2,
      opcode |-> (flags \div 2048) % 16,
      aa |-> (flags \div 1024) % 2,
      tc |-> (flags \div 512) % 2,
      rd |-> (flags \div 256) % 2,
      ra |-> (flags \div 128) % 2,
      z |-> (flags \div 16) % 16,
      rcode |-> flags % 16,
      qdcount |-> ReadUInt16BE(buffer, offset + 4),
      ancount |-> ReadUInt16BE(buffer, offset + 6),
      nscount |-> ReadUInt16BE(buffer, offset + 8),
      arcount |-> ReadUInt16BE(buffer, offset + 10)]

\* "data.type || RecordType.A", "data.class || RecordClass.IN"
OrDefault(n, default) == IF n = 0 THEN default ELSE n

\* DNSQuestion.encodeRaw(question, nextOffset, thisObject)
DNSQuestion_encode(question, encodedLabels, nextOffset) ==
  Let(encodeDomainName(question.name, encodedLabels, nextOffset), LAMBDA nameBuffer :
    [bytes |-> nameBuffer.bytes \o WriteUInt16BE(OrDefault(question.type, TYPE_A))
                 \o WriteUInt16BE(OrDefault(question.class, CLASS_IN)),
     labels |-> nameBuffer.labels])

\* DNSQuestion.decode(buffer, offset)
DNSQuestion_decode(buffer, offset) ==
  Let(decodeDomainName(buffer, offset), LAMBDA n :
    IF ~n.ok \/ ~InRange(buffer, n.next, 4)
    THEN [ok |-> FALSE, result |-> Question(<<>>, TYPE_A), next |-> 0]
    ELSE [ok |-> TRUE,
          result |-> [name |-> n.name,
                      type |-> OrDefault(ReadUInt16BE(buffer, n.next), TYPE_A),
                      class |-> OrDefault(ReadUInt16BE(buffer, n.next + 2), CLASS_IN)],
          next |-> n.next + 4])

\* rdata of an SOA record
SOA_RECORD(mname, rname, serial, refresh, retry, expire, minimum) ==
  [mname |-> mname, rname |-> rname, serial |-> serial, refresh |-> refresh,
   retry |-> retry, expire |-> expire, minimum |-> minimum]

\* typeMap[type].encodeFn(data, nextOffset)
encodeRecordData(rdata, type, encodedLabels, nextOffset) ==
  CASE type = TYPE_A ->
         [bytes |-> Let(Split(rdata, 46), LAMBDA octets :
                      [i \in 1..Len(octets) |-> OctetOf(parseInt(octets[i], 10))]),
          labels |-> encodedLabels]
    [] type = TYPE_AAAA ->
         [bytes |-> Let(Split(rdata, 58), LAMBDA octets :
                      [i \in 1..Len(octets) |-> OctetOf(parseInt(octets[i], 16))]),
          labels |-> encodedLabels]
    [] type \in {TYPE_NS, TYPE_CNAME} ->
         encodeDomainName(rdata, encodedLabels, nextOffset)
    [] type = TYPE_TXT ->
         [bytes |-> [i \in 1..Len(rdata) |-> ToUint8(rdata[i])], labels |-> encodedLabels]
    [] type = TYPE_SOA ->
         Let(encodeDomainName(rdata.mname, encodedLabels, nextOffset), LAMBDA mname :
         Let(encodeDomainName(rdata.rname, mname.labels,
                              nextOffset + Len(mname.bytes)), LAMBDA rname :
           [bytes |-> mname.bytes \o rname.bytes \o WriteUInt32BE(rdata.serial)
                        \o WriteUInt32BE(rdata.refresh) \o WriteUInt32BE(rdata.retry)
                        \o WriteUInt32BE(rdata.expire) \o WriteUInt32BE(rdata.minimum),
            labels |-> rname.labels]))

\* typeMap[type].decodeFn(buffer, offset, rdlength)
decodeRecordData(buffer, offset, type, rdlength) ==
  Let(Subarray(buffer, offset, offset + rdlength), LAMBDA rDataBuffer :
    CASE type = TYPE_A ->
           [ok |-> TRUE,
            rdata |-> Join([i \in 1..Len(rDataBuffer) |-> ToDecimal(rDataBuffer[i])], 46)]
      [] type = TYPE_AAAA ->
           [ok |-> TRUE,
            rdata |-> Join([i \in 1..Len(rDataBuffer) |-> ToDecimal(rDataBuffer[i])], 58)]
      [] type \in {TYPE_NS, TYPE_CNAME} ->
           Let(decodeDomainName(buffer, offset), LAMBDA n :
             [ok |-> n.ok, rdata |-> n.name])
      [] type = TYPE_TXT -> [ok |-> TRUE, rdata |-> rDataBuffer]
      [] type = TYPE_SOA ->
           Let(decodeDomainName(buffer, offset), LAMBDA mname :
           Let(decodeDomainName(buffer, mname.next), LAMBDA rname :
             IF ~mname.ok \/ ~rname.ok \/ ~InRange(buffer, rname.next, 20)
             THEN [ok |-> FALSE, rdata |-> <<>>]
             ELSE [ok |-> TRUE,
                   rdata |-> SOA_RECORD(mname.name, rname.name,
                                        ReadUInt32BE(buffer, rname.next),
                                        ReadUInt32BE(buffer, rname.next + 4),
                                        ReadUInt32BE(buffer, rname.next + 8),
                                        ReadUInt32BE(buffer, rname.next + 12),
                                        ReadUInt32BE(buffer, rname.next + 16))]))
      [] OTHER -> [ok |-> FALSE, rdata |-> <<>>])   \* no usable typeMap entry

\* DNSAnswer.encodeRaw(record, nextOffset, thisObject): rdlength is recomputed
DNSAnswer_encode(record, encodedLabels, nextOffset) ==
  Let(encodeDomainName(record.name, encodedLabels, nextOffset), LAMBDA nameBuffer :
  Let(nextOffset + Len(nameBuffer.bytes) + 10, LAMBDA rDataOffset :
  Let(encodeRecordData(record.rdata, OrDefault(record.type, TYPE_A),
                       nameBuffer.labels, rDataOffset), LAMBDA rData :
    [bytes |-> nameBuffer.bytes \o WriteUInt16BE(OrDefault(record.type, TYPE_A))
                 \o WriteUInt16BE(OrDefault(record.class, CLASS_IN))
                 \o WriteUInt32BE(record.ttl) \o WriteUInt16BE(Len(rData.bytes))
                 \o rData.bytes,
     labels |-> rData.labels])))

NoRecord == RR(<<>>, TYPE_A, 0, 0, <<>>)

\* DNSAnswer.decode(buffer, offset)
DNSAnswer_decode(buffer, offset) ==
  Let(decodeDomainName(buffer, offset), LAMBDA n :
    IF ~n.ok \/ ~InRange(buffer, n.next, 10)
    THEN [ok |-> FALSE, result |-> NoRecord, next |-> 0]
    ELSE Let(ReadUInt16BE(buffer, n.next), LAMBDA type :
         Let(ReadUInt16BE(buffer, n.next + 8), LAMBDA rdlength :
         Let(decodeRecordData(buffer, n.next + 10, type, rdlength), LAMBDA rdata :
           IF ~rdata.ok THEN [ok |-> FALSE, result |-> NoRecord, next |-> 0]
           ELSE [ok |-> TRUE,
                 result |-> [name |-> n.name,
                             type |-> OrDefault(type, TYPE_A),
                             class |-> OrDefault(ReadUInt16BE(buffer, n.next + 2),
                                                 CLASS_IN),
                             ttl |-> ReadUInt32BE(buffer, n.next + 4),
                             rdlength |-> rdlength,
                             rdata |-> rdata.rdata],
                 next |-> n.next + 10 + rdlength]))))

\* "for (const question of this.questions)" of DNSPacket.encode
RECURSIVE EncodeQuestions(_, _, _)
EncodeQuestions(questions, encodedLabels, qOffset) ==
  IF Len(questions) = 0
  THEN [bytes |-> <<>>, labels |-> encodedLabels, next |-> qOffset]
  ELSE Let(DNSQuestion_encode(Head(questions), encodedLabels, qOffset), LAMBDA q :
       Let(EncodeQuestions(Tail(questions), q.labels, qOffset + Len(q.bytes)),
           LAMBDA rest :
         [bytes |-> q.bytes \o rest.bytes, labels |-> rest.labels, next |-> rest.next]))

\* encodeRecords(records, nextOffset)
RECURSIVE encodeRecords(_, _, _)
encodeRecords(records, encodedLabels, nextOffset) ==
  IF Len(records) = 0
  THEN [bytes |-> <<>>, labels |-> encodedLabels, next |-> nextOffset]
  ELSE Let(DNSAnswer_encode(Head(records), encodedLabels, nextOffset), LAMBDA r :
       Let(encodeRecords(Tail(records), r.labels, nextOffset + Len(r.bytes)),
           LAMBDA rest :
         [bytes |-> r.bytes \o rest.bytes, labels |-> rest.labels, next |-> rest.next]))

\* DNSPacket.encode with the table encodedLabels of the DNSPacket object: the
\* header is written as it is, then the sections in order
DNSPacket_encode(packet, encodedLabels) ==
  Let(DNSHeader_encode(packet.header), LAMBDA encodedHeader :
  Let(EncodeQuestions(packet.questions, encodedLabels, Len(encodedHeader)), LAMBDA qs :
  Let(encodeRecords(packet.answers, qs.labels, qs.next), LAMBDA an :
  Let(encodeRecords(packet.authorities, an.labels, an.next), LAMBDA ns :
  Let(encodeRecords(packet.additionals, ns.labels, ns.next), LAMBDA ar :
    [bytes |-> encodedHeader \o qs.bytes \o an.bytes \o ns.bytes \o ar.bytes,
     labels |-> ar.labels])))))

\* DNSPacket.encodeRaw(data): a new DNSPacket, whose table is empty, is encoded
DNSPacket_encodeRaw(data) == DNSPacket_encode(data, NoLabels).bytes

\* "while (qCount > 0 && qOffset < buffer.length)" of DNSPacket.decode
RECURSIVE DecodeQuestions(_, _, _)
DecodeQuestions(buffer, qOffset, qCount) ==
  IF qCount = 0 \/ qOffset >= Len(buffer)
  THEN [ok |-> TRUE, result |-> <<>>, next |-> qOffset]
  ELSE Let(DNSQuestion_decode(buffer, qOffset), LAMBDA q :
         IF ~q.ok THEN [ok |-> FALSE, result |-> <<>>, next |-> 0]
         ELSE Let(DecodeQuestions(buffer, q.next, qCount - 1), LAMBDA rest :
                [ok |-> rest.ok, result |-> <<q.result>> \o rest.result,
                 next |-> rest.next]))

\* decodeRecords(buffer, recordOffset, recordCount)
RECURSIVE decodeRecords(_, _, _)
decodeRecords(buffer, recordOffset, recordCount) ==
  IF recordCount = 0 \/ recordOffset >= Len(buffer)
  THEN [ok |-> TRUE, result |-> <<>>, next |-> recordOffset]
  ELSE Let(DNSAnswer_decode(buffer, recordOffset), LAMBDA r :
         IF ~r.ok THEN [ok |-> FALSE, result |-> <<>>, next |-> 0]
         ELSE Let(decodeRecords(buffer, r.next, recordCount - 1), LAMBDA rest :
                [ok |-> rest.ok, result |-> <<r.result>> \o rest.result,
                 next |-> rest.next]))

\* DNSPacket.decode(buffer).toObject(), or the Error it throws
DNSPacket_decode(buffer) ==
  IF Len(buffer) < 12 THEN ErrorObject
  ELSE Let(DNSHeader_decode(buffer, 0), LAMBDA decodedHeader :
         IF decodedHeader.qdcount < 1 THEN ErrorObject
         ELSE Let(DecodeQuestions(buffer, 12, decodedHeader.qdcount), LAMBDA qs :
              Let(decodeRecords(buffer, qs.next, decodedHeader.ancount), LAMBDA an :
              Let(decodeRecords(buffer, an.next, decodedHeader.nscount), LAMBDA ns :
              Let(decodeRecords(buffer, ns.next, decodedHeader.arcount), LAMBDA ar :
                IF ~qs.ok THEN ErrorObject
                ELSE IF ~an.ok THEN ErrorObject
                ELSE IF ~ns.ok THEN ErrorObject
                ELSE IF ~ar.ok THEN ErrorObject
                ELSE Packet(decodedHeader, qs.result, an.result, ns.result,
                            ar.result))))))

----------------------------------------------------------------------------
(* Messages of the data model on which the codec is exercised *)

NameBC == Str(<<"b", "c">>)
NameABC == Str(<<"a", ".", "b", "c">>)
NameAbc == Str(<<"a", "b", "c">>)

\* the string the codec uses for an address: the bytes joined as decimal numbers
AddressText(octets, sep) == Join([i \in 1..Len(octets) |-> ToDecimal(octets[i])], sep)

CodecRecords(name) ==
  {RR(name, TYPE_A, 300, 4, AddressText(<<93, 184, 216, 34>>, 46)),
   RR(name, TYPE_AAAA, 300, 16,
      AddressText(<<0, 1, 2, 3, 4, 5, 6, 7, 8, 9, 0, 0, 0, 0, 0, 1>>, 58)),
   RR(name, TYPE_AAAA, 300, 16,
      AddressText(<<32, 1, 13, 184, 0, 0, 0, 0, 0, 0, 0, 0, 0, 0, 0, 1>>, 58)),
   RR(name, TYPE_CNAME, 300, 6, NameABC),
   RR(name, TYPE_CNAME, 300, 5, NameAbc),
   RR(name, TYPE_NS, 300, 4, NameBC),
   RR(name, TYPE_TXT, 300, 2, Str(<<"a", "b">>)),
   RR(name, TYPE_SOA, 300, 30, SOA_RECORD(NameABC, NameAbc, 1, 2, 3, 4, 5))}

CodecHeaders(an) ==
  {WireHeader(Header(7, qr, 0, ra, rcode, 1, an, 0, 0), 0, 0, rd, z) :
     qr \in {QUERY, RESPONSE}, ra \in {0, 1}, rd \in {0, 1}, z \in {0, 5},
     rcode \in {NO_ERROR, NAME_ERROR}}

Messages ==
  UNION {
    {Packet(h, <<Question(name, TYPE_A)>>, <<>>, <<>>, <<>>) : h \in CodecHeaders(0)}
    \cup {Packet(h, <<Question(name, TYPE_A)>>, <<r>>, <<>>, <<>>) :
            h \in CodecHeaders(1), r \in CodecRecords(name)}
    : name \in {NameBC, NameABC}}
  \cup {Packet(h, <<Question(NameABC, TYPE_A)>>,
                <<RR(NameBC, TYPE_A, 300, 4, AddressText(<<93, 184, 216, 34>>, 46))>>,
                <<>>, <<>>) : h \in CodecHeaders(1)}

\* the offset at which the question section of the encoded message ends
QuestionsEnd(m) == Len(DNSPacket_encodeRaw([m EXCEPT !.answers = <<>>]))

\* datagrams that end before the sections their header announces: after the
\* header, and after the question section
Truncations(m) ==
  {SubSeq(DNSPacket_encodeRaw(m), 1, n) : n \in {12, QuestionsEnd(m)}}

TruncatedBuffers == UNION {Truncations(m) : m \in {x \in Messages : Len(x.answers) = 1}}

\* name fields as a peer may send them: a buffer and the offset of the name
NameCase(buffer, offset) == [buffer |-> buffer, offset |-> offset]

\* pointers that lead back to themselves: directly, through a second pointer,
\* after a label
PointerLoops ==
  {NameCase(<<192, 0>>, 0),
   NameCase(<<192, 2, 192, 0>>, 0),
   NameCase(<<1, 97, 192, 0>>, 0)}

\* pointers whose offset is not below the buffer length
PointersBeyond ==
  {NameCase(<<192, 2>>, 0),
   NameCase(<<192, 9>>, 0),
   NameCase(<<1, 97, 192, 4>>, 0),
   NameCase(<<1, 97, 0, 255, 255>>, 3)}

\* well-formed names: labels only, a pointer to an earlier name, a pointer to
\* a name that ends in a pointer
NamesWellFormed ==
  {NameCase(<<1, 97, 2, 98, 99, 0>>, 0),
   NameCase(<<2, 98, 99, 0, 1, 97, 192, 0>>, 4),
   NameCase(<<2, 98, 99, 0, 1, 97, 192, 0, 192, 4>>, 8)}

NameCases == PointerLoops \cup PointersBeyond \cup NamesWellFormed

----------------------------------------------------------------------------
(* Names and addresses *)

RootHints == {"198.41.0.4", "199.9.14.201"}

Other(name) == IF name = "a.example" THEN "b.example" ELSE "a.example"

SoaRData == "ns.example hostmaster.example 1 2 3 4 5"

\* String(rdata): an SOA rdata is an object
StringOf(r) == IF r.type = TYPE_SOA THEN "[object Object]" ELSE r.rdata

\* /^[a-zA-Z0-9]+([\-\.]{1}[a-zA-Z0-9]+)*\.[a-zA-Z]{2,}$/ over the names used
isValidDomain(domain) == domain \in {"a.example", "b.example", "ns.example"}

\* Math.random() of pickRandomFromArray, as an index chosen by the caller
Picks == {1, 2}

----------------------------------------------------------------------------
(* Upstream name servers (environment): what forwardResolver decodes from the
   datagram a server sends back for a query with header hdr and question q *)

UpstreamHeader(hdr, rcode, an, ns, ar) ==
  Header(hdr.id, RESPONSE, 0, 0, rcode, 1, Len(an), Len(ns), Len(ar))

UpstreamPacket(hdr, q, rcode, an, ns, ar) ==
  Packet(UpstreamHeader(hdr, rcode, an, ns, ar), <<q>>, an, ns, ar)

NsRecord == RR("example", TYPE_NS, 2, 12, "ns.example")
SoaRecord == RR("example", TYPE_SOA, 2, 40, SoaRData)
GlueA == RR("ns.example", TYPE_A, 2, 4, "203.0.113.5")
GlueAAAA == RR("ns.example", TYPE_AAAA, 2, 16, "20:01:0d:b8")

UpstreamReply(kind, hdr, q) ==
  CASE kind = "answer1" ->
         UpstreamPacket(hdr, q, NO_ERROR,
                        <<RR(q.name, TYPE_A, 2, 4, "93.184.216.34")>>, <<>>, <<>>)
    [] kind = "answer2" ->
         UpstreamPacket(hdr, q, NO_ERROR,
                        <<RR(q.name, TYPE_A, 1, 4, "93.184.216.35")>>, <<>>, <<>>)
    [] kind = "cname" ->
         UpstreamPacket(hdr, q, NO_ERROR,
                        <<RR(q.name, TYPE_CNAME, 2, 11, Other(q.name))>>, <<>>, <<>>)
    [] kind = "servfail_answer" ->
         UpstreamPacket(hdr, q, SERVER_FAILURE,
                        <<RR(q.name, TYPE_A, 2, 4, "93.184.216.34")>>, <<>>, <<>>)
    [] kind = "glue" ->
         UpstreamPacket(hdr, q, NO_ERROR, <<>>, <<NsRecord>>, <<GlueAAAA, GlueA>>)
    [] kind = "glue6" ->
         UpstreamPacket(hdr, q, NO_ERROR, <<>>, <<NsRecord>>, <<GlueAAAA>>)
    [] kind = "ns" ->
         UpstreamPacket(hdr, q, NO_ERROR, <<>>, <<NsRecord>>, <<>>)
    [] kind = "soa" ->
         UpstreamPacket(hdr, q, NO_ERROR, <<>>, <<SoaRecord>>, <<>>)
    [] kind = "nxdomain" ->
         UpstreamPacket(hdr, q, NAME_ERROR, <<>>, <<SoaRecord>>, <<>>)
    [] kind = "empty" ->
         UpstreamPacket(hdr, q, NO_ERROR, <<>>, <<>>, <<>>)
    [] kind = "answer_badid" ->   \* a datagram that answers some other query
         UpstreamPacket([hdr EXCEPT !.id = hdr.id + 1], q, NO_ERROR,
                        <<RR(q.name, TYPE_A, 2, 4, "93.184.216.34")>>, <<>>, <<>>)
    [] kind = "nx_answer" ->      \* rcode NAME_ERROR with an answer section
         UpstreamPacket(hdr, q, NAME_ERROR,
                        <<RR(q.name, TYPE_A, 2, 4, "93.184.216.34")>>,
                        <<SoaRecord>>, <<>>)
    [] kind = "cnames" ->         \* two aliases around an address record
         UpstreamPacket(hdr, q, NO_ERROR,
                        <<RR(q.name, TYPE_CNAME, 2, 11, "b.example"),
                          RR(q.name, TYPE_A, 2, 4, "93.184.216.34"),
                          RR(q.name, TYPE_CNAME, 2, 12, "ns.example")>>, <<>>, <<>>)

    [] kind = "nx_glue" ->        \* rcode NAME_ERROR with a glue record
         UpstreamPacket(hdr, q, NAME_ERROR, <<>>, <<NsRecord>>, <<GlueA>>)
    [] kind = "nx_glue6" ->       \* rcode NAME_ERROR with an IPv6 glue record only
         UpstreamPacket(hdr, q, NAME_ERROR, <<>>, <<NsRecord>>, <<GlueAAAA>>)
    [] kind = "nx_ns" ->          \* rcode NAME_ERROR with an NS authority
         UpstreamPacket(hdr, q, NAME_ERROR, <<>>, <<NsRecord>>, <<>>)
    [] kind = "nx_cname" ->       \* rcode NAME_ERROR with an alias
         UpstreamPacket(hdr, q, NAME_ERROR,
                        <<RR(q.name, TYPE_CNAME, 2, 11, Other(q.name))>>, <<>>, <<>>)

    [] kind = "refused_answer" -> \* rcode REFUSED with an answer section
         UpstreamPacket(hdr, q, REFUSED,
                        <<RR(q.name, TYPE_A, 2, 4, "93.184.216.34")>>, <<>>, <<>>)
    [] kind = "notimp_answer" ->  \* rcode NOT_IMPLEMENTED with an answer section
         UpstreamPacket(hdr, q, NOT_IMPLEMENTED,
                        <<RR(q.name, TYPE_A, 2, 4, "93.184.216.34")>>, <<>>, <<>>)
    [] kind = "refused" ->        \* rcode REFUSED and nothing else
         UpstreamPacket(hdr, q, REFUSED, <<>>, <<>>, <<>>)
    [] kind = "answers3" ->       \* three address records with different TTLs
         UpstreamPacket(hdr, q, NO_ERROR,
                        <<RR(q.name, TYPE_A, 2, 4, "93.184.216.34"),
                          RR(q.name, TYPE_A, 1, 4, "93.184.216.35"),
                          RR(q.name, TYPE_A, 3, 4, "93.184.216.36")>>, <<>>, <<>>)

ReplyKinds ==
  {"answer1", "answer2", "cname", "servfail_answer", "glue", "glue6", "ns",
   "soa", "nxdomain", "empty"}

\* replies of an upstream hierarchy that delegates with glue and finally answers,
\* possibly with an alias
ChainKinds == {"glue", "cname", "answer1"}

\* replies of an upstream that answers the question itself
AnswerKinds == {"answer1", "answer2"}

\* replies of an upstream that answers the question itself, with one record or
\* with several
DirectKinds == AnswerKinds \cup {"answers3"}

\* replies of an upstream that answers, delegates without glue, sends several
\* aliases, an answer under rcode NAME_ERROR, or a datagram with another id
EdgeKinds ==
  {"answer1", "ns", "cnames", "nx_answer", "answer_badid", "nx_ns", "nx_cname"}

\* replies of an upstream that answers or refuses, with or without an answer
\* section
RcodeKinds == {"answer1", "servfail_answer", "refused_answer", "notimp_answer", "refused"}

\* replies of a hierarchy that delegates without glue or with IPv6 glue only,
\* also under rcode NAME_ERROR
Glue6Kinds == {"answer1", "ns", "glue6", "nx_glue6"}

\* replies of a hierarchy that delegates with glue, also under rcode NAME_ERROR
DelegationKinds == ChainKinds \cup {"nx_glue"}

----------------------------------------------------------------------------
(* recursiveLookup: one frame per invocation *)

Frame(hdr, q, srv) ==
  [hdr |-> hdr, q |-> q, srv |-> srv, iter |-> 1, wait |-> "upstream",
   rhdr |-> DefaultHeader, answers |-> <<>>, cnames |-> <<>>, auths |-> <<>>]

NoFrame == Frame(DefaultHeader, Question("", TYPE_A), "")

\* what a continuation of recursiveLookup does next
Return(result) == [op |-> "return", result |-> result, frame |-> NoFrame, child |-> Question("", TYPE_A)]
Send(frame) == [op |-> "send", result |-> NoPacket, frame |-> frame, child |-> Question("", TYPE_A)]
Call(frame, child) == [op |-> "call", result |-> NoPacket, frame |-> frame, child |-> child]

\* a catch block that answers SERVER_FAILURE
LookupCatchServerFailure(f) ==
  Return(Packet([f.hdr EXCEPT !.aa = 0, !.ra = 1, !.qr = RESPONSE,
                              !.rcode = SERVER_FAILURE],
                <<f.q>>, <<>>, <<>>, <<>>))

\* the catch block: a failure of forwardResolver or a TypeError in the loop
LookupCatch(f) ==
  Return(Packet([f.hdr EXCEPT !.aa = 0, !.ra = 1, !.qr = RESPONSE, !.rcode = NAME_ERROR],
                <<f.q>>, <<>>, <<>>, <<>>))

\* "if dnsResponse.header.rcode === NAME_ERROR": the upstream response is passed on
LookupNameError(resp) ==
  Return([resp EXCEPT !.header.aa = 0, !.header.ra = 1, !.header.qr = RESPONSE,
                      !.header.rcode = NAME_ERROR])

\* a finalResponse that carries every answer twice
LookupFinalTwice(f, rhdr, answers) ==
  Return(Packet([rhdr EXCEPT !.ancount = 2 * Len(answers), !.aa = 0, !.ra = 1,
                             !.nscount = 0, !.arcount = 0],
                <<f.q>>, answers \o answers, <<>>, <<>>))

\* finalResponse of the answer branch
LookupFinal(f, rhdr, answers) ==
  Return(Packet([rhdr EXCEPT !.ancount = Len(answers), !.aa = 0, !.ra = 1,
                             !.nscount = 0, !.arcount = 0],
                <<f.q>>, answers, <<>>, <<>>))

\* the nested lookup of one CNAME answer
CnameCall(f, rhdr, answers, cnames) ==
  Call([f EXCEPT !.wait = "cname", !.rhdr = rhdr, !.answers = answers,
                 !.cnames = Tail(cnames)],
       Question(Head(cnames).rdata, TYPE_CNAME))

LookupAnswers(f, resp) ==
  LET cnameAnswers == SelectSeqByType(resp.answers, TYPE_CNAME)
  IN IF Len(cnameAnswers) > 0 /\ f.q.type # TYPE_CNAME
     THEN CnameCall(f, resp.header, resp.answers, cnameAnswers)
     ELSE LookupFinal(f, resp.header, resp.answers)

\* a next iteration that asks for the name of the record it took the address from
LookupContinueRenames(f, srv) ==
  Send([f EXCEPT !.srv = srv, !.iter = f.iter + 1, !.wait = "upstream",
                 !.q = Question("ns.example", f.q.type)])

\* next iteration of the for(;;) loop with another server address
LookupContinue(f, srv) == Send([f EXCEPT !.srv = srv, !.iter = f.iter + 1,
                                        !.wait = "upstream"])

\* an additionals branch that picks among all additional records
LookupAdditionalsAny(f, resp, pick) ==
  IF Len(resp.additionals) = 0
  THEN LookupCatch(f)
  ELSE LookupContinue(f, resp.additionals[((pick - 1) % Len(resp.additionals)) + 1].rdata)

\* an additionals branch that, without an IPv4 record, returns NAME_ERROR with
\* the authority section of the reply
LookupAdditionalsKeepsAuthorities(f, resp, pick) ==
  LET additionalWithIPv4 == SelectSeq(resp.additionals, LAMBDA r : r.rdlength = 4)
  IN IF Len(additionalWithIPv4) = 0
     THEN Return(Packet([f.hdr EXCEPT !.qr = RESPONSE, !.aa = 0, !.ra = 1,
                                      !.rcode = NAME_ERROR,
                                      !.nscount = Len(resp.authorities)],
                        <<f.q>>, <<>>, resp.authorities, <<>>))
     ELSE LookupContinue(f, additionalWithIPv4[((pick - 1) % Len(additionalWithIPv4)) + 1].rdata)

LookupAdditionals(f, resp, pick) ==
  LET additionalWithIPv4 == SelectSeq(resp.additionals, LAMBDA r : r.rdlength = 4)
  IN IF Len(additionalWithIPv4) = 0
     THEN LookupCatch(f)   \* undefined.rdata throws a TypeError
     ELSE LookupContinue(f, additionalWithIPv4[((pick - 1) % Len(additionalWithIPv4)) + 1].rdata)

\* a return at the end of the loop body that drops the authority section
LookupNoServerBare(f, auths) ==
  Return(Packet([f.hdr EXCEPT !.qr = RESPONSE, !.aa = 0, !.ra = 1,
                              !.rcode = NAME_ERROR, !.nscount = 0],
                <<f.q>>, <<>>, <<>>, <<>>))

\* the return at the end of the loop body
LookupNoServer(f, auths) ==
  Return(Packet([f.hdr EXCEPT !.qr = RESPONSE, !.aa = 0, !.ra = 1,
                              !.rcode = NAME_ERROR, !.nscount = Len(auths)],
                <<f.q>>, <<>>, auths, <<>>))

LookupSoa(f, resp) ==
  Return(Packet([f.hdr EXCEPT !.qr = RESPONSE, !.rcode = NAME_ERROR,
                              !.nscount = Len(resp.authorities)],
                <<f.q>>, <<>>, resp.authorities, resp.additionals))

RenameToRData(s) ==
  [i \in 1..Len(s) |-> [s[i] EXCEPT !.name = StringOf(s[i])]]

\* an authority branch that takes the name of the server for its address
LookupAuthoritiesDirect(f, resp, pick) ==
  LET validAuthorityRecords ==
        SelectSeq(RenameToRData(resp.authorities), LAMBDA r : isValidDomain(r.name))
  IN IF Len(resp.authorities) = 0 \/ Len(validAuthorityRecords) = 0
     THEN LookupNoServer(f, resp.authorities)
     ELSE LookupContinue(f,
            validAuthorityRecords[((pick - 1) % Len(validAuthorityRecords)) + 1].name)

LookupAuthorities(f, resp, pick) ==
  LET validAuthorityRecords ==
        SelectSeq(RenameToRData(resp.authorities), LAMBDA r : isValidDomain(r.name))
  IN IF Len(resp.authorities) = 0 \/ Len(validAuthorityRecords) = 0
     THEN LookupNoServer(f, resp.authorities)
     ELSE LET validAuthorityRecord ==
                validAuthorityRecords[((pick - 1) % Len(validAuthorityRecords)) + 1]
          IN IF validAuthorityRecord.type = TYPE_SOA
             THEN LookupSoa(f, resp)
             ELSE Call([f EXCEPT !.wait = "ns", !.auths = resp.authorities],
                       Question(validAuthorityRecord.name, TYPE_A))

\* the loop body after forwardResolver has resolved with dnsResponse
LookupOnResponse(f, resp, pick) ==
  IF resp.header.rcode = NAME_ERROR THEN LookupNameError(resp)
  ELSE IF Len(resp.answers) > 0 THEN LookupAnswers(f, resp)
  ELSE IF Len(resp.additionals) > 0 THEN LookupAdditionals(f, resp, pick)
  ELSE LookupAuthorities(f, resp, pick)

\* a continuation that puts the answers of a nested lookup in front
LookupOnReturnPrepend(f, res, pick) ==
  IF f.wait = "cname"
  THEN LET answers == res.answers \o f.answers
       IN IF Len(f.cnames) > 0
          THEN CnameCall(f, f.rhdr, answers, f.cnames)
          ELSE LookupFinal(f, f.rhdr, answers)
  ELSE IF Len(res.answers) > 0
       THEN LookupContinue(f, res.answers[((pick - 1) % Len(res.answers)) + 1].rdata)
       ELSE LookupNoServer(f, f.auths)

\* a continuation that asks the same server again when the nested lookup for
\* the name server found no address
LookupOnReturnRetries(f, res, pick) ==
  IF f.wait = "cname"
  THEN LET answers == f.answers \o res.answers
       IN IF Len(f.cnames) > 0
          THEN CnameCall(f, f.rhdr, answers, f.cnames)
          ELSE LookupFinal(f, f.rhdr, answers)
  ELSE IF Len(res.answers) > 0
       THEN LookupContinue(f, res.answers[((pick - 1) % Len(res.answers)) + 1].rdata)
       ELSE LookupContinue(f, f.srv)

\* the continuation after "await recursiveLookup(...)" has returned res
LookupOnReturn(f, res, pick) ==
  IF f.wait = "cname"
  THEN LET answers == f.answers \o res.answers
       IN IF Len(f.cnames) > 0
          THEN CnameCall(f, f.rhdr, answers, f.cnames)
          ELSE LookupFinal(f, f.rhdr, answers)
  ELSE IF Len(res.answers) > 0
       THEN LookupContinue(f, res.answers[((pick - 1) % Len(res.answers)) + 1].rdata)
       ELSE LookupNoServer(f, f.auths)

----------------------------------------------------------------------------
(* Tasks: one per datagram the UDP server is handling *)

NoCache == [kind |-> "none", val |-> <<>>]

\* "const resolverPort = 53"
resolverPort == 53

\* the datagram of the open forwardResolver socket: what udpSocket.send was
\* given; no datagram when no socket is open
Datagram(query, port, host) == [query |-> query, port |-> port, host |-> host]

NoDatagram == Datagram(NoPacket, 0, "")

IdleTask ==
  [pc |-> "idle", req |-> NoPacket, qi |-> 0, resps |-> <<>>, stack |-> <<>>,
   ret |-> NoPacket, fwd |-> "none", socks |-> 0, cres |-> NoCache,
   result |-> NoPacket, out |-> <<>>, nested |-> 0, reply |-> NoPacket,
   sent |-> NoDatagram]

\* datagrams a client may send, and what DNSPacket.decode makes of them
Datagrams == {"garbage", "query", "header_only"}

ClientQuestion == Question("a.example", TYPE_A)

\* the same name as a client may spell it in capitals
UpperQuestion == Question("A.EXAMPLE", TYPE_A)

decode(d) ==
  CASE d = "garbage" -> ErrorObject   \* shorter than 12 bytes or qdcount = 0: throws
    [] d = "query" ->
         Packet(Header(7, QUERY, 0, 0, NO_ERROR, 1, 0, 0, 0), <<ClientQuestion>>,
                <<>>, <<>>, <<>>)
    [] d = "header_only" ->          \* 12 bytes, qdcount = 1, no question bytes
         Packet(Header(7, QUERY, 0, 0, NO_ERROR, 1, 0, 0, 0), <<>>, <<>>, <<>>, <<>>)
    [] d = "query_upper" ->          \* the query with its name in capitals
         Packet(Header(7, QUERY, 0, 0, NO_ERROR, 1, 0, 0, 0), <<UpperQuestion>>,
                <<>>, <<>>, <<>>)
    [] d = "query2" ->               \* a query with two questions
         Packet(Header(7, QUERY, 0, 0, NO_ERROR, 2, 0, 0, 0),
                <<ClientQuestion, UpperQuestion>>, <<>>, <<>>, <<>>)
    [] d = "query_ar" ->             \* a query that carries an additional record
         Packet(Header(7, QUERY, 0, 0, NO_ERROR, 1, 0, 0, 1), <<ClientQuestion>>,
                <<>>, <<>>, <<GlueA>>)

\* `domain:${question.name}:${question.type}:${question.class}`
CacheKey(question) == <<"domain", question.name, question.type, question.class>>

Keys == {CacheKey(ClientQuestion), CacheKey(UpperQuestion)}

NoEntry == [present |-> FALSE, val |-> <<>>, ttl |-> 0]

JSONstringify(answers) == [json |-> answers]
JSONparse(value) == value.json

\* the UDP server: encode what recursiveResolver returned and send it
ServerSend(tk, result) ==
  [tk EXCEPT !.pc = "done", !.result = result, !.out = Append(tk.out, encodeRaw(result)),
             !.stack = <<>>, !.ret = NoPacket, !.nested = 0, !.reply = NoPacket]

\* a resolver that returns the response to the last question
ResolverReturnLast(tk, resps) ==
  ServerSend([tk EXCEPT !.resps = resps],
             IF Len(resps) > 0 THEN resps[Len(resps)] ELSE Undefined)

\* return dnsQueryResponseObjects.find(response => response != null)
ResolverReturn(tk, resps) ==
  ServerSend([tk EXCEPT !.resps = resps],
             IF Len(resps) > 0 THEN resps[1] ELSE Undefined)

\* catch (e) { return e as DNSPacketType }
ResolverCatch(tk) == ServerSend(tk, ErrorObject)

\* cache.get(question) / cache.set(question, answers): "await this.connect()"
CacheCall(tk, op, open) ==
  [tk EXCEPT !.pc = IF open THEN op \o "_cmd" ELSE op \o "_connect"]

\* next iteration of "for (const question of requestObject.questions)"
ResolverNext(tk, resps, open) ==
  IF tk.qi < Len(tk.req.questions)
  THEN CacheCall([tk EXCEPT !.qi = tk.qi + 1, !.resps = resps, !.cres = NoCache], "get", open)
  ELSE ResolverReturn(tk, resps)

\* a hit response that leaves the request's ra flag as it came
HitResponseKeepsRa(req, question, cachedAnswers) ==
  Packet([req.header EXCEPT !.qr = RESPONSE, !.ancount = Len(cachedAnswers)],
         <<question>>, cachedAnswers, <<>>, <<>>)

\* the response built on a cache hit
HitResponse(req, question, cachedAnswers) ==
  Packet([req.header EXCEPT !.qr = RESPONSE, !.ra = 1, !.ancount = Len(cachedAnswers)],
         <<question>>, cachedAnswers, <<>>, <<>>)

\* forwardResolver resolves with parsedResponse: dnsResponse of recursiveLookup
ForwardResolve(tk, parsedResponse) == [tk EXCEPT !.reply = parsedResponse]

\* forwardResolver rejects: recursiveLookup has no dnsResponse
ForwardReject(tk) == [tk EXCEPT !.reply = NoPacket]

\* DNSPacket.encodeRaw(requestObject): the query a lookup frame sends upstream
LookupQuery(f) == encodeRaw(Packet(f.hdr, <<f.q>>, <<>>, <<>>, <<>>))

\* forwardResolver(requestBuffer, resolverPort, rootnameServerIPCopy) of the
\* lookup on top: a fresh socket is created and the query is sent
ForwardResolver(tk) ==
  [tk EXCEPT !.fwd = "waiting", !.socks = tk.socks + 1,
             !.sent = Datagram(LookupQuery(Head(tk.stack)), resolverPort,
                               Head(tk.stack).srv)]

\* a handler that leaves its socket open
SocketCloseNever(tk) == [tk EXCEPT !.fwd = "none", !.sent = NoDatagram]

\* udpSocket.close() in the 'message' handler's finally and in the 'error' handler
SocketClose(tk) ==
  [tk EXCEPT !.fwd = "none", !.socks = tk.socks - 1, !.sent = NoDatagram]

\* a call of recursiveLookup: pick a root server, send the first query
LookupCall(tk, hdr, question, root) ==
  ForwardResolver([tk EXCEPT !.pc = "lookup",
                             !.stack = <<Frame(hdr, question, root)>> \o tk.stack])

\* cache miss: the single-question sub-query
ResolverMiss(tk, question, root) ==
  LookupCall(tk, [tk.req.header EXCEPT !.qdcount = 1], question, root)

\* the check without its rcode test
CacheableAnyRcode(result) == Len(result.answers) > 0

\* "if (result.header.rcode === NO_ERROR && result.answers.length > 0)"
Cacheable(result) == result.header.rcode = NO_ERROR /\ Len(result.answers) > 0

\* what the top frame's continuation decided
LookupApply(tk, o, root) ==
  CASE o.op = "return" ->
         [tk EXCEPT !.stack = Tail(tk.stack), !.ret = o.result]
    [] o.op = "send" ->
         ForwardResolver([tk EXCEPT !.stack = <<o.frame>> \o Tail(tk.stack),
                                    !.ret = NoPacket])
    [] o.op = "call" ->
         LookupCall([tk EXCEPT !.stack = <<o.frame>> \o Tail(tk.stack),
                               !.ret = NoPacket, !.nested = tk.nested + 1],
                    o.frame.hdr, o.child, root)

\* the bounds of the model: delegations per lookup call, depth of nesting
WithinBounds(tk, o, lim) ==
  /\ o.op = "send" => o.frame.iter <= lim
  /\ o.op = "call" => Len(tk.stack) < MaxDepth
  /\ (o.op = "call" /\ o.frame.wait = "ns") => o.frame.iter < lim

----------------------------------------------------------------------------
(* DNSCache on the shared Redis client *)

\* redis.get(key); value ? JSON.parse(value) : null; a failure is caught and logged
GetCommand(entry, ok) ==
  IF ~ok THEN [kind |-> "undefined", val |-> <<>>]
  ELSE IF entry.present THEN [kind |-> "value", val |-> JSONparse(entry.val)]
  ELSE [kind |-> "null", val |-> <<>>]

\* SET without NX: the key is overwritten
SetEntryOverwrite(entry, answers) ==
  [present |-> TRUE, val |-> JSONstringify(answers), ttl |-> answers[1].ttl]

\* a SET whose EX is the TTL of the last answer
SetEntryLastTtl(entry, answers) ==
  IF entry.present THEN entry
  ELSE [present |-> TRUE, val |-> JSONstringify(answers),
        ttl |-> answers[Len(answers)].ttl]

\* a SET that stores the first answer only
SetEntryFirstOnly(entry, answers) ==
  IF entry.present THEN entry
  ELSE [present |-> TRUE, val |-> JSONstringify(<<answers[1]>>), ttl |-> answers[1].ttl]

\* redis.set(key, value, {NX: true, EX: answers[0].ttl})
SetEntry(entry, answers) ==
  IF entry.present THEN entry
  ELSE [present |-> TRUE, val |-> JSONstringify(answers), ttl |-> answers[1].ttl]

\* the reply of SET ... NX: 'OK', or null when the key exists; a failure is caught
SetResult(entry, answers, ok) ==
  IF Len(answers) = 0 THEN "null"
  ELSE IF ~ok THEN "undefined"
  ELSE IF entry.present THEN "null" ELSE "OK"

\* the key expires when its time to live has run out
Expire(entry) ==
  IF ~entry.present THEN entry
  ELSE IF entry.ttl <= 1 THEN NoEntry
  ELSE [entry EXCEPT !.ttl = entry.ttl - 1]

----------------------------------------------------------------------------
(* Actions *)

Question_(tk) == tk.req.questions[tk.qi]

\* a 'message' handler that answers a datagram it cannot decode
ServerMessageReplies(t, d) ==
  /\ tasks[t].pc = "idle"
  /\ LET p == decode(d)
     IN tasks' = [tasks EXCEPT ![t] =
          IF p.kind = "error"
          THEN ServerSend([IdleTask EXCEPT !.req = p], p)
          ELSE ResolverNext([IdleTask EXCEPT !.req = p], <<>>, redisOpen)]
  /\ UNCHANGED <<store, redisOpen, codec>>

\* udpSocket.on('message'): decode the datagram and call recursiveResolver
ServerMessage(t, d) ==
  /\ tasks[t].pc = "idle"
  /\ LET p == decode(d)
     IN tasks' = [tasks EXCEPT ![t] =
          IF p.kind = "error"
          THEN [IdleTask EXCEPT !.pc = "done", !.req = p]
          ELSE ResolverNext([IdleTask EXCEPT !.req = p], <<>>, redisOpen)]
  /\ UNCHANGED <<store, redisOpen, codec>>

\* DNSCache.connect: redis.connect() resolves or rejects
CacheConnect(t, ok) ==
  /\ tasks[t].pc \in {"get_connect", "set_connect"}
  /\ IF ok
     THEN /\ tasks' = [tasks EXCEPT ![t].pc =
                         IF tasks[t].pc = "get_connect" THEN "get_cmd" ELSE "set_cmd"]
          /\ redisOpen' = TRUE
     ELSE /\ tasks' = [tasks EXCEPT ![t] = ResolverCatch(tasks[t])]
          /\ UNCHANGED redisOpen
  /\ UNCHANGED <<store, codec>>

\* DNSCache.get: the GET command completes
CacheGet(t, ok) ==
  /\ tasks[t].pc = "get_cmd"
  /\ tasks' = [tasks EXCEPT ![t].pc = "get_close",
                            ![t].cres = GetCommand(store[CacheKey(Question_(tasks[t]))],
                                                   ok /\ redisOpen)]
  /\ UNCHANGED <<store, redisOpen, codec>>

\* DNSCache.set: the SET command completes
CacheSet(t, ok) ==
  /\ tasks[t].pc = "set_cmd"
  /\ LET tk == tasks[t]
         key == CacheKey(Question_(tk))
         answers == tk.resps[Len(tk.resps)].answers
         res == SetResult(store[key], answers, ok /\ redisOpen)
     IN /\ tasks' = [tasks EXCEPT ![t].pc = "set_close",
                                  ![t].cres = [kind |-> res, val |-> answers]]
        /\ store' = IF res \in {"OK", "null"} /\ Len(answers) > 0
                    THEN [store EXCEPT ![key] = SetEntry(store[key], answers)]
                    ELSE store
  /\ UNCHANGED <<redisOpen, codec>>

\* DNSCache.close in the finally block, then the caller's continuation
CacheClose(t, ok, root) ==
  /\ tasks[t].pc \in {"get_close", "set_close"}
  /\ redisOpen' = FALSE
  /\ LET tk == tasks[t]
     IN tasks' = [tasks EXCEPT ![t] =
          IF redisOpen /\ ~ok THEN ResolverCatch(tk)
          ELSE IF tk.pc = "set_close" THEN ResolverNext(tk, tk.resps, FALSE)
          ELSE IF tk.cres.kind = "value"
               THEN ResolverNext(tk, Append(tk.resps,
                                   HitResponse(tk.req, Question_(tk), tk.cres.val)), FALSE)
               ELSE ResolverMiss(tk, Question_(tk), root)]
  /\ UNCHANGED <<store, codec>>

\* forwardResolver 'message' handler with a reply that decodes
ForwardMessage(t, kinds, pick, root, lim) ==
  /\ tasks[t].pc = "lookup"
  /\ tasks[t].fwd = "waiting"
  /\ \E kind \in kinds :
       LET tk == tasks[t]
           f == Head(tk.stack)
           parsedResponse == UpstreamReply(kind, f.hdr, f.q)
           o == LookupOnResponse(f, parsedResponse, pick)
       IN /\ WithinBounds(tk, o, lim)
          /\ tasks' = [tasks EXCEPT ![t] =
               LookupApply(SocketClose(ForwardResolve(tk, parsedResponse)), o, root)]
  /\ UNCHANGED <<store, redisOpen, codec>>

\* forwardResolver 'message' handler with a reply DNSPacket.decode rejects
ForwardBadMessage(t) ==
  /\ tasks[t].pc = "lookup"
  /\ tasks[t].fwd = "waiting"
  /\ LET tk == tasks[t]
     IN tasks' = [tasks EXCEPT ![t] =
                    LookupApply(SocketClose(ForwardReject(tk)),
                                LookupCatch(Head(tk.stack)), "")]
  /\ UNCHANGED <<store, redisOpen, codec>>

\* forwardResolver 'error' handler
ForwardError(t) ==
  /\ tasks[t].pc = "lookup"
  /\ tasks[t].fwd = "waiting"
  /\ LET tk == tasks[t]
     IN tasks' = [tasks EXCEPT ![t] =
                    LookupApply(SocketClose(ForwardReject(tk)),
                                LookupCatch(Head(tk.stack)), "")]
  /\ UNCHANGED <<store, redisOpen, codec>>

\* the upstream server never answers this query
UpstreamSilent(t) ==
  /\ tasks[t].pc = "lookup"
  /\ tasks[t].fwd = "waiting"
  /\ tasks' = [tasks EXCEPT ![t].fwd = "silent"]
  /\ UNCHANGED <<store, redisOpen, codec>>

\* a nested recursiveLookup has returned to the lookup that awaits it
LookupReturn(t, pick, root) ==
  /\ tasks[t].pc = "lookup"
  /\ tasks[t].ret.kind # "none"
  /\ Len(tasks[t].stack) > 0
  /\ LET tk == tasks[t]
     IN tasks' = [tasks EXCEPT ![t] =
                    LookupApply(tk, LookupOnReturn(Head(tk.stack), tk.ret, pick), root)]
  /\ UNCHANGED <<store, redisOpen, codec>>

\* recursiveResolver after "await recursiveLookup(dnsQuery)"
ResolverAfterLookup(t) ==
  /\ tasks[t].pc = "lookup"
  /\ tasks[t].ret.kind # "none"
  /\ Len(tasks[t].stack) = 0
  /\ LET tk == tasks[t]
         resps == Append(tk.resps, tk.ret)
     IN tasks' = [tasks EXCEPT ![t] =
          IF Cacheable(tk.ret)
          THEN CacheCall([tk EXCEPT !.resps = resps, !.ret = NoPacket,
                                    !.reply = NoPacket], "set", redisOpen)
          ELSE ResolverNext([tk EXCEPT !.ret = NoPacket, !.reply = NoPacket],
                            resps, redisOpen)]
  /\ UNCHANGED <<store, redisOpen, codec>>

\* the handler has finished; the slot takes the next datagram
TaskReset(t) ==
  /\ tasks[t].pc = "done"
  /\ tasks' = [tasks EXCEPT ![t] = IdleTask]
  /\ UNCHANGED <<store, redisOpen, codec>>

\* one second passes in the Redis server
Tick ==
  /\ \E k \in Keys : store[k].present
  /\ store' = [k \in Keys |-> Expire(store[k])]
  /\ UNCHANGED <<tasks, redisOpen, codec>>

\* the codec exercised on its own: a message, its encoding and the table of the
\* DNSPacket object that was encoded, the decoded result, a second encoding
NoCodec ==
  [phase |-> "none", m |-> NoPacket, buffer |-> <<>>, labels |-> NoLabels,
   result |-> NoPacket, out |-> <<>>, offset |-> 0, name |-> DecodeError]

\* DNSPacket.encodeRaw(m): new DNSPacket(m).encode(), which leaves its names in
\* the table of the object
CodecEncode ==
  /\ codec.phase = "object"
  /\ codec' = [codec EXCEPT !.phase = "buffer", !.buffer = DNSPacket_encodeRaw(codec.m),
                            !.labels = DNSPacket_encode(codec.m, NoLabels).labels]
  /\ UNCHANGED <<tasks, store, redisOpen>>

\* encode() called once more on the DNSPacket object that was encoded
CodecEncodeAgain ==
  /\ codec.phase = "buffer"
  /\ codec' = [codec EXCEPT !.phase = "encoded_twice",
                            !.out = DNSPacket_encode(codec.m, codec.labels).bytes]
  /\ UNCHANGED <<tasks, store, redisOpen>>

\* DNSPacket.decode(buffer).toObject()
CodecDecode ==
  /\ codec.phase = "buffer"
  /\ codec' = [codec EXCEPT !.phase = "decoded", !.result = DNSPacket_decode(codec.buffer)]
  /\ UNCHANGED <<tasks, store, redisOpen>>

\* DNSPacket.decode(buffer).toObject() on a buffer as it came from the network
CodecDecodeReceived ==
  /\ codec.phase = "received"
  /\ codec' = [codec EXCEPT !.phase = "received_decoded",
                            !.result = DNSPacket_decode(codec.buffer)]
  /\ UNCHANGED <<tasks, store, redisOpen>>

\* DNSPacket.encodeRaw(responseObject) on a message that was decoded from a
\* buffer, as the handler does with the response it sends to the client
CodecReencode ==
  /\ codec.phase = "decoded"
  /\ codec.result.kind = "packet"
  /\ codec' = [codec EXCEPT !.phase = "reencoded",
                            !.out = DNSPacket_encodeRaw(codec.result)]
  /\ UNCHANGED <<tasks, store, redisOpen>>

\* decodeDomainName(buffer, offset) on a buffer as it came from the network
CodecDecodeName ==
  /\ codec.phase = "name"
  /\ codec' = [codec EXCEPT !.phase = "name_decoded",
                            !.name = decodeDomainName(codec.buffer, codec.offset)]
  /\ UNCHANGED <<tasks, store, redisOpen>>

----------------------------------------------------------------------------
(* Specifications *)

Init ==
  /\ tasks = [t \in Tasks |-> IdleTask]
  /\ store = [k \in Keys |-> NoEntry]
  /\ redisOpen = FALSE
  /\ codec = NoCodec

\* the UDP front-end and recursiveResolver with its cache
ResolverNext_(t) ==
  \/ \E d \in Datagrams : ServerMessage(t, d)
  \/ \E ok \in BOOLEAN : CacheConnect(t, ok)
  \/ \E ok \in BOOLEAN : CacheGet(t, ok)
  \/ \E ok \in BOOLEAN : CacheSet(t, ok)
  \/ \E ok \in BOOLEAN, root \in RootHints : CacheClose(t, ok, root)
  \/ ResolverAfterLookup(t)
  \/ TaskReset(t)

\* the events that settle the promise forwardResolver awaits
ForwardSettle(t, kinds, lim) ==
  \/ \E pick \in Picks, root \in RootHints : ForwardMessage(t, kinds, pick, root, lim)
  \/ ForwardBadMessage(t)
  \/ ForwardError(t)

TaskNext(t, kinds, lim) ==
  \/ ResolverNext_(t)
  \/ ForwardSettle(t, kinds, lim)
  \/ UpstreamSilent(t)
  \/ \E pick \in Picks, root \in RootHints : LookupReturn(t, pick, root)

\* one datagram at a time, against every upstream behaviour
Next == TaskNext("t1", ReplyKinds, MaxIter) \/ Tick

Spec == Init /\ [][Next]_vars

\* the event loop runs every continuation that is ready; time passes
FairSpec == Spec /\ WF_vars(TaskNext("t1", ReplyKinds, MaxIter)) /\ WF_vars(Tick)

\* two datagrams handled concurrently, against an upstream that answers directly
RaceNext ==
  \/ \E t \in Tasks : ResolverNext_(t)
  \/ \E t \in Tasks : ForwardSettle(t, AnswerKinds, MaxIter)
  \/ \E t \in Tasks : UpstreamSilent(t)
  \/ Tick

RaceSpec == Init /\ [][RaceNext]_vars

\* one datagram at a time, against an upstream that keeps delegating with glue
CapNext == TaskNext("t1", ChainKinds, CapIter) \/ Tick

CapSpec == Init /\ [][CapNext]_vars

\* one datagram at a time, against the unusual upstream replies
EdgeNext ==
  \/ TaskNext("t1", EdgeKinds, MaxIter)
  \/ ServerMessage("t1", "query_ar")
  \/ Tick

EdgeSpec == Init /\ [][EdgeNext]_vars

\* one datagram at a time, against a hierarchy that delegates with glue
DelegationNext == TaskNext("t1", DelegationKinds, ChainIter) \/ Tick

DelegationSpec == Init /\ [][DelegationNext]_vars

\* one datagram at a time, the name also in capitals, against an upstream that
\* answers directly
CaseNext ==
  \/ ResolverNext_("t1")
  \/ ServerMessage("t1", "query_upper")
  \/ ForwardSettle("t1", DirectKinds, MaxIter)
  \/ UpstreamSilent("t1")
  \/ Tick

CaseSpec == Init /\ [][CaseNext]_vars

\* one datagram at a time, also with two questions, against an upstream that
\* answers directly
QuestionsNext ==
  \/ ResolverNext_("t1")
  \/ ServerMessage("t1", "query2")
  \/ ForwardSettle("t1", AnswerKinds, MaxIter)
  \/ UpstreamSilent("t1")
  \/ Tick

QuestionsSpec == Init /\ [][QuestionsNext]_vars

\* one datagram at a time, against an upstream that puts any rcode in its replies
RcodeNext ==
  \/ ResolverNext_("t1")
  \/ ForwardSettle("t1", RcodeKinds, MaxIter)
  \/ UpstreamSilent("t1")
  \/ Tick

RcodeSpec == Init /\ [][RcodeNext]_vars

\* one datagram at a time, against a hierarchy whose delegations have no IPv4 glue
Glue6Next == TaskNext("t1", Glue6Kinds, MaxIter) \/ Tick

Glue6Spec == Init /\ [][Glue6Next]_vars

\* the codec applied to every message of the bounded data model
CodecInit ==
  /\ tasks = [t \in Tasks |-> IdleTask]
  /\ store = [k \in Keys |-> NoEntry]
  /\ redisOpen = FALSE
  /\ codec \in {[NoCodec EXCEPT !.phase = "object", !.m = m] : m \in Messages}
              \cup {[NoCodec EXCEPT !.phase = "name", !.buffer = c.buffer,
                                    !.offset = c.offset] : c \in NameCases}
              \cup {[NoCodec EXCEPT !.phase = "received", !.buffer = b] :
                      b \in TruncatedBuffers}

CodecNext ==
  \/ CodecEncode \/ CodecEncodeAgain \/ CodecDecode \/ CodecReencode
  \/ CodecDecodeName \/ CodecDecodeReceived

CodecSpec == CodecInit /\ [][CodecNext]_vars

----------------------------------------------------------------------------
(* Claims *)

InResolve(t) == tasks[t].pc \notin {"idle", "done"}

LastResponse(tk) == tk.resps[Len(tk.resps)]

\* C1: every call of recursiveResolver eventually terminates and a response is
\* sent, whatever the upstream does (also when it never replies).
C1_ResolveTerminates ==
  \A t \in Tasks :
    InResolve(t) ~> (tasks[t].pc = "done" /\ Len(tasks[t].out) = 1)

\* qr = 1, the request's id, header counts equal to the section lengths
WellFormedResponse(m, req) ==
  /\ m.header.qr = RESPONSE
  /\ m.header.id = req.header.id
  /\ m.header.qdcount = Len(m.questions)
  /\ m.header.ancount = Len(m.answers)
  /\ m.header.nscount = Len(m.authorities)
  /\ m.header.arcount = Len(m.additionals)

\* C2: for every datagram received the server sends at most one datagram, none
\* only when the datagram did not decode, and what it sends is a well-formed
\* response to the request.
C2_ServerReplies ==
  \A t \in Tasks :
    tasks[t].pc = "done" =>
      /\ Len(tasks[t].out) <= 1
      /\ Len(tasks[t].out) = 0 => tasks[t].req.kind = "error"
      /\ \A i \in 1..Len(tasks[t].out) : WellFormedResponse(tasks[t].out[i], tasks[t].req)

C4_SetIfAbsent ==
  [][\A k \in Keys :
       (store[k].present /\ store'[k].present) =>
         /\ store'[k].val = store[k].val
         /\ store'[k].ttl <= store[k].ttl
    ]_vars

\* a set was refused for a key that holds other answers
C4_Witness ==
  \E t \in Tasks :
    /\ tasks[t].pc = "set_close"
    /\ tasks[t].cres.kind = "null"
    /\ store[CacheKey(Question_(tasks[t]))].present
    /\ JSONparse(store[CacheKey(Question_(tasks[t]))].val) # tasks[t].cres.val

\* C5: a cache entry is created only by the set of a top-level lookup result with
\* rcode NO_ERROR and a non-empty answer list, and holds that answer list.
C5_OnlyGoodResultsCached ==
  [][\A k \in Keys :
       (store'[k].present /\ (~store[k].present \/ store'[k].val # store[k].val)) =>
         \E t \in Tasks :
           /\ tasks[t].pc = "set_cmd"
           /\ tasks[t].stack = <<>>
           /\ k = CacheKey(Question_(tasks[t]))
           /\ LastResponse(tasks[t]).header.rcode = NO_ERROR
           /\ Len(LastResponse(tasks[t]).answers) > 0
           /\ store'[k].val = JSONstringify(LastResponse(tasks[t]).answers)
    ]_vars

\* an entry has been written, and a NAME_ERROR result has left the cache empty
C5_Witness ==
  \E t \in Tasks :
    /\ tasks[t].pc = "set_close"
    /\ tasks[t].cres.kind = "OK"
    /\ store[CacheKey(Question_(tasks[t]))].present

\* C6: a failure of the backing store never leaves get, set or resolve: for a
\* request with a question, recursiveResolver returns a DNS response.
C6_CacheFaultsContained ==
  \A t \in Tasks :
    (/\ tasks[t].pc = "done"
     /\ tasks[t].req.kind = "packet"
     /\ Len(tasks[t].req.questions) > 0) =>
      /\ tasks[t].result.kind = "packet"
      /\ tasks[t].result.header.qr = RESPONSE

\* C7: a lookup call sends at most 16 upstream queries and a resolve makes at
\* most 32 nested lookup invocations.
C7_LookupCaps ==
  \A t \in Tasks :
    /\ \A i \in 1..Len(tasks[t].stack) : tasks[t].stack[i].iter <= 16
    /\ tasks[t].nested <= 32

\* the answers are a CNAME loop: a CNAME b, b CNAME a
CnameLoop(answers) ==
  /\ Len(answers) = 2
  /\ answers[1].type = TYPE_CNAME
  /\ answers[2].type = TYPE_CNAME
  /\ answers[1].rdata = answers[2].name
  /\ answers[2].rdata = answers[1].name

\* C8: when the upstream answers a question of another type than CNAME with a
\* CNAME loop, the response of resolve has rcode NAME_ERROR.
C8_CnameLoopNameError ==
  \A t \in Tasks :
    (/\ tasks[t].pc = "done"
     /\ tasks[t].result.kind = "packet"
     /\ tasks[t].req.questions[1].type # TYPE_CNAME
     /\ CnameLoop(tasks[t].result.answers)) =>
      tasks[t].result.header.rcode = NAME_ERROR

\* C9: when the upstream sends no datagram, the forwardResolver call eventually
\* fails: the promise it awaits is settled.
C9_ForwardTimesOut ==
  \A t \in Tasks : (tasks[t].fwd = "silent") ~> (tasks[t].fwd = "none")

\* C10: no socket forwardResolver created stays open for ever: while one is
\* open, a handler that closes it can still run.
C10_SocketsClosed ==
  \A t \in Tasks :
    tasks[t].socks > 0 => ENABLED ForwardSettle(t, ReplyKinds, MaxIter)

\* C11: forwardResolver resolves only with a reply whose header id equals the id
\* of the query it sent; a reply with another id is never handed to the lookup
\* as the parsed response.
C11_ReplyIdChecked ==
  \A t \in Tasks :
    tasks[t].reply.kind = "packet" =>
      tasks[t].reply.header.id = tasks[t].req.header.id

\* the step in which the promise of forwardResolver is rejected
ForwardFails(t) ==
  /\ tasks[t].fwd = "waiting"
  /\ tasks'[t].fwd = "none"
  /\ tasks'[t].reply.kind = "none"

\* C12: when forwardResolver fails (the reply does not decode, the socket
\* reports an error) the lookup call sends no further query and returns, without
\* throwing, a response with qr=1, aa=0, ra=1, rcode NAME_ERROR, the call's
\* questions and empty answer, authority and additional sections.
C12_ForwardFailureIsNameError ==
  [][\A t \in Tasks :
       ForwardFails(t) =>
         /\ tasks'[t].pc = "lookup"
         /\ tasks'[t].stack = Tail(tasks[t].stack)
         /\ tasks'[t].socks = tasks[t].socks - 1
         /\ tasks'[t].ret.kind = "packet"
         /\ tasks'[t].ret.header.qr = RESPONSE
         /\ tasks'[t].ret.header.aa = 0
         /\ tasks'[t].ret.header.ra = 1
         /\ tasks'[t].ret.header.rcode = NAME_ERROR
         /\ tasks'[t].ret.questions = <<Head(tasks[t].stack).q>>
         /\ tasks'[t].ret.answers = <<>>
         /\ tasks'[t].ret.authorities = <<>>
         /\ tasks'[t].ret.additionals = <<>>
    ]_vars

\* a lookup call has returned after forwardResolver failed
C12_Witness ==
  \E t \in Tasks :
    /\ tasks[t].pc = "lookup"
    /\ tasks[t].fwd = "none"
    /\ tasks[t].reply.kind = "none"
    /\ tasks[t].ret.kind = "packet"
    /\ tasks[t].ret.header.rcode = NAME_ERROR

\* the header counts of an encoded message equal its section lengths
CountsMatchSections(m) ==
  /\ m.header.qdcount = Len(m.questions)
  /\ m.header.ancount = Len(m.answers)
  /\ m.header.nscount = Len(m.authorities)
  /\ m.header.arcount = Len(m.additionals)

\* C13: in every message DNSPacket.encode emits, every response sent to a client
\* and every upstream query, the header counts equal the section lengths.
C13_CountsMatchSections ==
  \A t \in Tasks :
    /\ \A i \in 1..Len(tasks[t].out) : CountsMatchSections(tasks[t].out[i])
    /\ (tasks[t].pc = "lookup" /\ tasks[t].fwd = "waiting") =>
         CountsMatchSections(LookupQuery(Head(tasks[t].stack)))

\* the logical content of a record: everything but the stored rdlength
SameRecords(a, b) ==
  /\ Len(a) = Len(b)
  /\ \A i \in 1..Len(a) :
       /\ a[i].name = b[i].name
       /\ a[i].type = b[i].type
       /\ a[i].class = b[i].class
       /\ a[i].ttl = b[i].ttl
       /\ a[i].rdata = b[i].rdata

\* C14: for every message m of the data model, DNSPacket.decode(
\* DNSPacket.encodeRaw(m)) has the same header, questions, answers, authorities
\* and additionals as m.
C14_RoundTrip ==
  codec.phase = "decoded" =>
    /\ codec.result.kind = "packet"
    /\ codec.result.header = codec.m.header
    /\ codec.result.questions = codec.m.questions
    /\ SameRecords(codec.result.answers, codec.m.answers)
    /\ SameRecords(codec.result.authorities, codec.m.authorities)
    /\ SameRecords(codec.result.additionals, codec.m.additionals)

\* the step in which forwardResolver resolves and the lookup call goes on with
\* the reply, which is tasks'[t].reply
ReplyStep(t) ==
  /\ tasks[t].pc = "lookup"
  /\ tasks[t].fwd = "waiting"
  /\ tasks'[t] # tasks[t]
  /\ tasks'[t].fwd # "silent"
  /\ tasks'[t].reply.kind = "packet"

\* the additional records of a reply that carry an IPv4 address
V4Glue(resp) == SelectSeq(resp.additionals, LAMBDA r : r.rdlength = 4)

\* the call's next query: the same question, once, to an address of the glue
GlueQuerySent(t) ==
  LET f == Head(tasks[t].stack)
      g == Head(tasks'[t].stack)
      glue == V4Glue(tasks'[t].reply)
  IN /\ Len(tasks'[t].stack) = Len(tasks[t].stack)
     /\ tasks'[t].fwd = "waiting"
     /\ tasks'[t].socks = 1
     /\ g.iter = f.iter + 1
     /\ g.hdr = f.hdr
     /\ g.q = f.q
     /\ \E i \in 1..Len(glue) : g.srv = glue[i].rdata

\* the reply is the third of a resolve without nested lookups and carries
\* address answers only
ThirdReplyAnswers(t) ==
  /\ Len(tasks[t].stack) = 1
  /\ tasks[t].nested = 0
  /\ Head(tasks[t].stack).iter = 3
  /\ Len(tasks'[t].reply.answers) > 0
  /\ Len(SelectSeqByType(tasks'[t].reply.answers, TYPE_CNAME)) = 0

\* the lookup returns the reply's answers under the client's id
AnswerReturned(t) ==
  /\ tasks'[t].stack = <<>>
  /\ tasks'[t].fwd = "none"
  /\ tasks'[t].socks = 0
  /\ tasks'[t].ret.kind = "packet"
  /\ tasks'[t].ret.header.id = tasks[t].req.header.id
  /\ tasks'[t].ret.header.qr = RESPONSE
  /\ tasks'[t].ret.header.ra = 1
  /\ tasks'[t].ret.header.rcode = NO_ERROR
  /\ tasks'[t].ret.answers = tasks'[t].reply.answers

\* C15 as stated: whenever a reply has no answers and additional records with
\* rdlength 4, the call's next query goes, once, to the rdata of one of them;
\* the third reply of a glue chain, an answer, is returned with the client's
\* id, qr=1, ra=1, rcode=0.
C15_GlueFollowedAlways ==
  [][\A t \in Tasks :
       /\ (/\ ReplyStep(t)
           /\ Len(tasks'[t].reply.answers) = 0
           /\ Len(V4Glue(tasks'[t].reply)) > 0) => GlueQuerySent(t)
       /\ (ReplyStep(t) /\ ThirdReplyAnswers(t)) => AnswerReturned(t)
    ]_vars

\* C15: whenever a reply whose rcode is not NAME_ERROR has no answers and
\* additional records with rdlength 4, the call's next query goes, once, to the
\* rdata of one of them; the third reply of a glue chain, an answer with rcode
\* 0, is returned with the client's id, qr=1, ra=1, rcode=0.
C15_GlueFollowed ==
  [][\A t \in Tasks :
       /\ (/\ ReplyStep(t)
           /\ tasks'[t].reply.header.rcode # NAME_ERROR
           /\ Len(tasks'[t].reply.answers) = 0
           /\ Len(V4Glue(tasks'[t].reply)) > 0) => GlueQuerySent(t)
       /\ (/\ ReplyStep(t)
           /\ tasks'[t].reply.header.rcode # NAME_ERROR
           /\ ThirdReplyAnswers(t)) => AnswerReturned(t)
    ]_vars

\* the third query of a resolve has been sent to the address of a glue record
C15_Witness ==
  \E t \in Tasks :
    /\ tasks[t].pc = "lookup"
    /\ tasks[t].fwd = "waiting"
    /\ tasks[t].nested = 0
    /\ Head(tasks[t].stack).iter = 3
    /\ tasks[t].reply.kind = "packet"
    /\ Len(tasks[t].reply.answers) = 0
    /\ \E i \in 1..Len(V4Glue(tasks[t].reply)) :
         Head(tasks[t].stack).srv = V4Glue(tasks[t].reply)[i].rdata

\* a delegation without glue: no answers, no additionals, NS authorities with
\* valid names
NsDelegation(resp) ==
  /\ Len(resp.answers) = 0
  /\ Len(resp.additionals) = 0
  /\ Len(resp.authorities) > 0
  /\ \A i \in 1..Len(resp.authorities) :
       /\ resp.authorities[i].type = TYPE_NS
       /\ isValidDomain(resp.authorities[i].rdata)

\* a nested lookup for (NS name, A) has been started and the call awaits it
\* without having sent its question again
NsLookupStarted(t) ==
  LET f == Head(tasks[t].stack)
      auths == tasks'[t].reply.authorities
  IN /\ Len(tasks'[t].stack) = Len(tasks[t].stack) + 1
     /\ \E i \in 1..Len(auths) :
          tasks'[t].stack[1].q = Question(auths[i].rdata, TYPE_A)
     /\ tasks'[t].stack[1].iter = 1
     /\ tasks'[t].stack[2].wait = "ns"
     /\ tasks'[t].stack[2].q = f.q
     /\ tasks'[t].stack[2].iter = f.iter

\* the step in which a nested lookup returns to a call that awaits the address
\* of a name server
NsReturnStep(t) ==
  /\ tasks[t].pc = "lookup"
  /\ tasks[t].ret.kind # "none"
  /\ Len(tasks[t].stack) > 0
  /\ Head(tasks[t].stack).wait = "ns"
  /\ tasks'[t] # tasks[t]

\* the call sends its question again, to an address the nested lookup returned,
\* exactly when the nested lookup returned an answer
QuestionSentAgain(t) ==
  LET f == Head(tasks[t].stack)
      res == tasks[t].ret
  IN IF Len(res.answers) > 0
     THEN /\ Len(tasks'[t].stack) = Len(tasks[t].stack)
          /\ tasks'[t].fwd = "waiting"
          /\ tasks'[t].stack[1].q = f.q
          /\ tasks'[t].stack[1].iter = f.iter + 1
          /\ \E i \in 1..Len(res.answers) : tasks'[t].stack[1].srv = res.answers[i].rdata
     ELSE /\ tasks'[t].stack = Tail(tasks[t].stack)
          /\ tasks'[t].fwd = "none"

PlainAnswers(resp) ==
  /\ Len(resp.answers) > 0
  /\ Len(SelectSeqByType(resp.answers, TYPE_CNAME)) = 0

\* the call returns, without another query, the reply's answers in the
\* finalResponse of the answer branch
FinalResponseReturned(t) ==
  LET f == Head(tasks[t].stack)
      res == tasks'[t].ret
  IN /\ tasks'[t].stack = Tail(tasks[t].stack)
     /\ tasks'[t].fwd = "none"
     /\ tasks'[t].socks = tasks[t].socks - 1
     /\ res.kind = "packet"
     /\ res.answers = tasks'[t].reply.answers
     /\ res.header.ancount = Len(res.answers)
     /\ res.header.aa = 0
     /\ res.header.ra = 1
     /\ res.header.nscount = 0
     /\ res.header.arcount = 0
     /\ res.questions = <<f.q>>
     /\ res.authorities = <<>>
     /\ res.additionals = <<>>

\* C17 as stated: whenever a reply has a non-empty answer section without a
\* CNAME, the call sends no further query and returns each answer once with
\* ancount = len(answers), aa=0, ra=1, nscount=0, arcount=0, its question and
\* empty authority and additional sections.
C17_AnswerReturnedAlways ==
  [][\A t \in Tasks :
       (ReplyStep(t) /\ PlainAnswers(tasks'[t].reply)) => FinalResponseReturned(t)
    ]_vars

\* C17: whenever a reply whose rcode is not NAME_ERROR has a non-empty answer
\* section without a CNAME, the call sends no further query and returns each
\* answer once with ancount = len(answers), aa=0, ra=1, nscount=0, arcount=0,
\* its question and empty authority and additional sections.
C17_AnswerReturned ==
  [][\A t \in Tasks :
       (/\ ReplyStep(t)
        /\ tasks'[t].reply.header.rcode # NAME_ERROR
        /\ PlainAnswers(tasks'[t].reply)) => FinalResponseReturned(t)
    ]_vars

\* the top-level lookup has returned the answers of a reply
C17_Witness ==
  \E t \in Tasks :
    /\ tasks[t].pc = "lookup"
    /\ tasks[t].stack = <<>>
    /\ tasks[t].reply.kind = "packet"
    /\ tasks[t].reply.header.rcode = NO_ERROR
    /\ PlainAnswers(tasks[t].reply)
    /\ tasks[t].ret.kind = "packet"
    /\ tasks[t].ret.answers = tasks[t].reply.answers

\* empty answer and additional sections, one authority record, of type SOA
SoaOnly(resp) ==
  /\ Len(resp.answers) = 0
  /\ Len(resp.additionals) = 0
  /\ Len(resp.authorities) = 1
  /\ resp.authorities[1].type = TYPE_SOA

\* C18: whenever a reply has empty answer and additional sections and a single
\* authority record of type SOA, the call returns a response with qr=1, rcode
\* NAME_ERROR, nscount=1 and that SOA record in its authority section.
C18_SoaIsNameError ==
  [][\A t \in Tasks :
       (ReplyStep(t) /\ SoaOnly(tasks'[t].reply)) =>
         /\ tasks'[t].stack = Tail(tasks[t].stack)
         /\ tasks'[t].fwd = "none"
         /\ tasks'[t].ret.kind = "packet"
         /\ tasks'[t].ret.header.qr = RESPONSE
         /\ tasks'[t].ret.header.rcode = NAME_ERROR
         /\ tasks'[t].ret.header.nscount = 1
         /\ tasks'[t].ret.authorities = tasks'[t].reply.authorities
    ]_vars

\* a lookup has returned NAME_ERROR with the SOA record of a reply whose rcode
\* was NO_ERROR
C18_Witness ==
  \E t \in Tasks :
    /\ tasks[t].pc = "lookup"
    /\ tasks[t].reply.kind = "packet"
    /\ tasks[t].reply.header.rcode = NO_ERROR
    /\ SoaOnly(tasks[t].reply)
    /\ tasks[t].ret.kind = "packet"
    /\ tasks[t].ret.header.rcode = NAME_ERROR
    /\ tasks[t].ret.authorities = <<SoaRecord>>

\* an answer section with CNAME records for a question of another type
AliasAnswers(f, resp) ==
  /\ f.q.type # TYPE_CNAME
  /\ Len(SelectSeqByType(resp.answers, TYPE_CNAME)) > 0

\* the call holds the answer list so far and awaits the nested lookup of the
\* target of the first of cnames
CnameLookupStarted(t, answers, cnames) ==
  /\ Len(tasks'[t].stack) = Len(tasks[t].stack) + 1
  /\ tasks'[t].stack[1].q.name = Head(cnames).rdata
  /\ tasks'[t].stack[2].wait = "cname"
  /\ tasks'[t].stack[2].answers = answers
  /\ tasks'[t].stack[2].cnames = Tail(cnames)

\* the step in which the nested lookup of a CNAME target returns
CnameReturnStep(t) ==
  /\ tasks[t].pc = "lookup"
  /\ tasks[t].ret.kind # "none"
  /\ Len(tasks[t].stack) > 0
  /\ Head(tasks[t].stack).wait = "cname"
  /\ tasks'[t] # tasks[t]

\* the answers of the nested lookup are put behind the list so far; the next
\* CNAME target is looked up, or the list is returned after the last one
CnameAnswersAppended(t) ==
  LET f == Head(tasks[t].stack)
      answers == f.answers \o tasks[t].ret.answers
  IN IF Len(f.cnames) > 0
     THEN CnameLookupStarted(t, answers, f.cnames)
     ELSE /\ tasks'[t].stack = Tail(tasks[t].stack)
          /\ tasks'[t].ret.kind = "packet"
          /\ tasks'[t].ret.answers = answers

\* C19 as stated: whenever a reply to a question whose type is not CNAME has
\* CNAME answers, the final answer list is the reply's answers in their order
\* followed by the answers of the nested lookup of each CNAME target in CNAME
\* order.
C19_CnameOrderAlways ==
  [][\A t \in Tasks :
       /\ (ReplyStep(t) /\ AliasAnswers(Head(tasks[t].stack), tasks'[t].reply)) =>
            CnameLookupStarted(t, tasks'[t].reply.answers,
                               SelectSeqByType(tasks'[t].reply.answers, TYPE_CNAME))
       /\ CnameReturnStep(t) => CnameAnswersAppended(t)
    ]_vars

\* C19: whenever a reply whose rcode is not NAME_ERROR, to a question whose type
\* is not CNAME, has CNAME answers, the final answer list is the reply's answers
\* in their order followed by the answers of the nested lookup of each CNAME
\* target in CNAME order.
C19_CnameOrder ==
  [][\A t \in Tasks :
       /\ (/\ ReplyStep(t)
           /\ tasks'[t].reply.header.rcode # NAME_ERROR
           /\ AliasAnswers(Head(tasks[t].stack), tasks'[t].reply)) =>
            CnameLookupStarted(t, tasks'[t].reply.answers,
                               SelectSeqByType(tasks'[t].reply.answers, TYPE_CNAME))
       /\ CnameReturnStep(t) => CnameAnswersAppended(t)
    ]_vars

\* the lookup has returned the three answers of a reply with two aliases,
\* followed by the answer found for the first target, then the one for the second
C19_Witness ==
  \E t \in Tasks :
    /\ tasks[t].pc = "lookup"
    /\ tasks[t].stack = <<>>
    /\ tasks[t].ret.kind = "packet"
    /\ Len(tasks[t].ret.answers) = 5
    /\ tasks[t].ret.answers[1].type = TYPE_CNAME
    /\ tasks[t].ret.answers[2].type = TYPE_A
    /\ tasks[t].ret.answers[3].type = TYPE_CNAME
    /\ tasks[t].ret.answers[4].name = tasks[t].ret.answers[1].rdata
    /\ tasks[t].ret.answers[5].name = tasks[t].ret.answers[3].rdata

\* the step in which the 'message' handler receives a datagram that
\* DNSPacket.decode rejects
UndecodableReceived(t) ==
  /\ tasks[t].pc = "idle"
  /\ tasks'[t].req.kind = "error"

\* the handler of a datagram that did not decode has finished without a reply
Dropped(t) ==
  /\ tasks[t].pc = "done"
  /\ tasks[t].req.kind = "error"
  /\ tasks[t].out = <<>>

\* C20: a datagram that fails to decode is dropped silently: no reply is sent,
\* recursiveResolver is not called, the cache is not accessed, no upstream
\* query is sent, and the server takes the next datagram.
C20_UndecodableDropped ==
  /\ [][\A t \in Tasks :
          UndecodableReceived(t) =>
            /\ tasks'[t].pc = "done"
            /\ tasks'[t].out = <<>>
            /\ tasks'[t].qi = 0
            /\ tasks'[t].resps = <<>>
            /\ tasks'[t].cres = NoCache
            /\ tasks'[t].stack = <<>>
            /\ tasks'[t].socks = 0
            /\ tasks'[t].fwd = "none"
            /\ store' = store
            /\ redisOpen' = redisOpen
       ]_vars
  /\ [](\A t \in Tasks :
          (tasks[t].pc = "done" /\ tasks[t].req.kind = "error") =>
            /\ tasks[t].out = <<>>
            /\ ENABLED TaskReset(t))

\* a datagram that did not decode has been dropped
C20_Witness == \E t \in Tasks : Dropped(t)

\* C21: when recursiveResolver returns nothing for a decoded request, the
\* datagram the server sends is a NAME_ERROR response with the request's header
\* id and the request's question section.
C21_NothingIsNameError ==
  \A t \in Tasks :
    (/\ tasks[t].pc = "done"
     /\ tasks[t].req.kind = "packet"
     /\ tasks[t].result.kind = "undefined") =>
      /\ Len(tasks[t].out) = 1
      /\ tasks[t].out[1].header.rcode = NAME_ERROR
      /\ tasks[t].out[1].header.qr = RESPONSE
      /\ tasks[t].out[1].header.id = tasks[t].req.header.id
      /\ tasks[t].out[1].questions = tasks[t].req.questions

\* String.prototype.toLowerCase over the names used
LowerCase(name) == IF name = "A.EXAMPLE" THEN "a.example" ELSE name

\* two cache keys of names that differ at most in letter case, with the same
\* type and class
SameIgnoringCase(k1, k2) ==
  /\ LowerCase(k1[2]) = LowerCase(k2[2])
  /\ k1[3] = k2[3]
  /\ k1[4] = k2[4]

\* C22: questions whose names differ only in letter case map to the same cache
\* entry: when a get has completed for a question while the cache holds answers
\* stored for a question of the same name in another case, the get has returned
\* those answers.
C22_KeyIgnoresCase ==
  \A t \in Tasks :
    (tasks[t].pc = "get_close" /\ tasks[t].cres.kind \in {"null", "value"}) =>
      \A k \in Keys :
        (SameIgnoringCase(k, CacheKey(Question_(tasks[t]))) /\ store[k].present) =>
          /\ tasks[t].cres.kind = "value"
          /\ tasks[t].cres.val = JSONparse(store[k].val)

\* the step in which the SET command of cache.set for key k completes
SetStep(t, k) ==
  /\ tasks[t].pc = "set_cmd"
  /\ tasks'[t].pc = "set_close"
  /\ CacheKey(Question_(tasks[t])) = k

\* the step in which the GET command of cache.get for key k completes with a
\* reply of the store
GetStep(t, k) ==
  /\ tasks[t].pc = "get_cmd"
  /\ tasks'[t].pc = "get_close"
  /\ CacheKey(Question_(tasks[t])) = k
  /\ tasks'[t].cres.kind # "undefined"

\* C23: an entry written by set(q, answers) lives exactly answers[0].ttl
\* seconds, whatever the TTLs of the other answers: it is written with that
\* time to live and the whole list, every second takes one off and nothing else
\* changes it, it is gone when the last second has passed, and get(q) returns
\* the stored list while it is there and null when it is not.
C23_ExpiresAfterFirstTtl ==
  [][\A k \in Keys :
       /\ (~store[k].present /\ store'[k].present) =>
            \E t \in Tasks :
              /\ SetStep(t, k)
              /\ store'[k].ttl = LastResponse(tasks[t]).answers[1].ttl
              /\ JSONparse(store'[k].val) = LastResponse(tasks[t]).answers
       /\ store[k].present =>
            IF tasks' # tasks THEN store'[k] = store[k]
            ELSE IF store[k].ttl > 1
                 THEN store'[k] = [store[k] EXCEPT !.ttl = store[k].ttl - 1]
                 ELSE ~store'[k].present
       /\ \A t \in Tasks :
            GetStep(t, k) =>
              IF store[k].present
              THEN /\ tasks'[t].cres.kind = "value"
                   /\ tasks'[t].cres.val = JSONparse(store[k].val)
              ELSE tasks'[t].cres.kind = "null"
    ]_vars

\* an entry whose first answer has TTL 2 and whose second has TTL 1 is alive
\* with one second left
C23_Witness ==
  \E k \in Keys :
    /\ store[k].present
    /\ Len(JSONparse(store[k].val)) = 3
    /\ JSONparse(store[k].val)[1].ttl = 2
    /\ JSONparse(store[k].val)[2].ttl = 1
    /\ store[k].ttl = 1

\* C24: decoding a name whose compression pointer leads back to itself ends
\* with a format error the decoder raises itself: decodeDomainName does not
\* recurse until the call stack is exhausted.
C24_PointerLoopRejected ==
  (/\ codec.phase = "name_decoded"
   /\ NameCase(codec.buffer, codec.offset) \in PointerLoops) =>
    /\ ~codec.name.ok
    /\ ~codec.name.stack

\* C25: decoding a name that contains a compression pointer whose offset is not
\* below the buffer length fails; it never yields a decoded name.
C25_PointerBeyondRejected ==
  (/\ codec.phase = "name_decoded"
   /\ NameCase(codec.buffer, codec.offset) \in PointersBeyond) =>
    ~codec.name.ok

\* the names of a message in the order in which encodeRaw encodes them: the
\* question's, then each answer's owner name and the name in its rdata
RecordNames(r) ==
  <<r.name>> \o (IF r.type \in {TYPE_CNAME, TYPE_NS} THEN <<r.rdata>> ELSE <<>>)

NamesInOrder(m) ==
  [i \in 1..Len(m.questions) |-> m.questions[i].name]
    \o Flatten([i \in 1..Len(m.answers) |-> RecordNames(m.answers[i])])

\* the label-aligned suffixes of a name, the name itself included
Suffixes(name) ==
  LET labels == Split(name, 46)
  IN {Join(SubSeq(labels, i, Len(labels)), 46) : i \in 1..Len(labels)}

\* the suffixes of a name of m that an earlier name of m has as well
SuffixesEncodedEarlier(m) ==
  LET names == NamesInOrder(m)
  IN {s \in UNION {Suffixes(names[j]) : j \in 1..Len(names)} :
        \E i, j \in 1..Len(names) :
          i < j /\ s \in Suffixes(names[i]) /\ s \in Suffixes(names[j])}

\* how often the bytes sub occur in the buffer
Occurrences(buffer, sub) ==
  Cardinality({i \in 0..(Len(buffer) - Len(sub)) :
                 SubSeq(buffer, i + 1, i + Len(sub)) = sub})

\* C26: when a name of a message has a label-aligned suffix that an earlier
\* name of the same message has as well, the labels of that suffix are in the
\* encoded buffer only once (the later name is its remaining labels and a
\* pointer), and the decoded message has the same names in the same order.
C26_SuffixCompressed ==
  (/\ codec.phase = "decoded"
   /\ SuffixesEncodedEarlier(codec.m) # {}) =>
    /\ \A s \in SuffixesEncodedEarlier(codec.m) :
         Occurrences(codec.buffer, LabelBytes(s)) = 1
    /\ codec.result.kind = "packet"
    /\ NamesInOrder(codec.result) = NamesInOrder(codec.m)

\* the last n bytes of a buffer
LastBytes(buffer, n) == SubSeq(buffer, Len(buffer) - n + 1, Len(buffer))

\* the message in the buffer ends with the 16 bytes of an AAAA answer
EndsWithAAAA(packet) ==
  /\ Len(packet.answers) = 1
  /\ packet.answers[1].type = TYPE_AAAA
  /\ Len(packet.authorities) = 0
  /\ Len(packet.additionals) = 0

\* C27: encodeAAAARecord(decodeAAAARecord(b)) = b: when a buffer with an AAAA
\* answer is decoded and the decoded message is encoded again, the 16 bytes of
\* the address are the same in both buffers.
C27_AAAAInverse ==
  (/\ codec.phase = "reencoded"
   /\ EndsWithAAAA(codec.result)) =>
    LastBytes(codec.out, 16) = LastBytes(codec.buffer, 16)

\* the three z bits of the flags word of the header in a buffer
ZBits(buffer) == (ReadUInt16BE(buffer, 2) \div 16) % 8

\* C28: a message encoded from a decoded one has zero z bits, whatever the z
\* bits of the buffer it was decoded from, and the z field of a decoded header
\* is the value of the three z bits of the buffer, whatever its ra bit.
C28_ZIsZero ==
  /\ codec.phase = "reencoded" => ZBits(codec.out) = 0
  /\ (codec.phase \in {"decoded", "reencoded"} /\ codec.result.kind = "packet") =>
       codec.result.header.z = ZBits(codec.buffer)

\* the step sends a query upstream: a nested lookup starts with its first
\* query, or the lookup on top goes to its next iteration
QuerySentInStep(t) ==
  /\ tasks'[t].pc = "lookup"
  /\ tasks'[t].fwd = "waiting"
  /\ \/ tasks[t].pc # "lookup"
     \/ Len(tasks'[t].stack) > Len(tasks[t].stack)
     \/ /\ Len(tasks'[t].stack) = Len(tasks[t].stack)
        /\ tasks'[t].stack[1].iter = tasks[t].stack[1].iter + 1

\* C29: a resolve has at most one open forwardResolver socket at any moment,
\* the socket is open exactly while a query is outstanding, and a step sends a
\* query only when no query is outstanding or when the step itself is the one
\* that receives the reply to the outstanding query and closes its socket (a
\* failure ends the lookup); this holds at every depth of nested lookups.
C29_OneQueryAtATime ==
  [][\A t \in Tasks :
       /\ tasks[t].socks <= 1
       /\ tasks'[t].socks <= 1
       /\ (tasks'[t].socks = 1) <=> (tasks'[t].fwd \in {"waiting", "silent"})
       /\ QuerySentInStep(t) =>
            /\ tasks'[t].socks = 1
            /\ \/ tasks[t].socks = 0
               \/ /\ tasks[t].fwd = "waiting"
                  /\ tasks'[t].reply.kind = "packet"
    ]_vars

\* a nested lookup has sent its second query, after a reply to its first
C29_Witness ==
  \E t \in Tasks :
    /\ Len(tasks[t].stack) = 2
    /\ tasks[t].stack[1].iter = 2
    /\ tasks[t].fwd = "waiting"
    /\ tasks[t].socks = 1
    /\ tasks[t].reply.kind = "packet"

FirstQueryInStep(t) ==
  /\ QuerySentInStep(t)
  /\ \/ tasks[t].pc # "lookup"
     \/ Len(tasks'[t].stack) > Len(tasks[t].stack)

\* C31: every query of a lookup call goes to port 53 with one question; the
\* first query of a call, top-level or nested, goes to a root-hint address, and
\* the top-level call asks the client's question under the request's header; a
\* later query of the call carries the header and the question of the query
\* before it, so that only the destination address changes between iterations.
C31_QueryUnchanged ==
  [][\A t \in Tasks :
       QuerySentInStep(t) =>
         LET f == Head(tasks[t].stack)
             g == Head(tasks'[t].stack)
             sent == tasks'[t].sent
         IN /\ sent.port = 53
            /\ Len(sent.query.questions) = 1
            /\ sent.query.answers = <<>>
            /\ IF FirstQueryInStep(t)
               THEN /\ sent.host \in RootHints
                    /\ g.iter = 1
                    /\ tasks[t].pc # "lookup" =>
                         /\ sent.query.questions = <<tasks[t].req.questions[tasks[t].qi]>>
                         /\ sent.query.header = [tasks[t].req.header EXCEPT !.qdcount = 1]
               ELSE /\ sent.query.header = f.hdr
                    /\ sent.query.questions = <<f.q>>
                    /\ g = [f EXCEPT !.srv = g.srv, !.iter = f.iter + 1, !.wait = g.wait,
                                     !.auths = g.auths]
    ]_vars

\* a nested lookup has sent its second query, to the address of a glue record
C31_Witness ==
  \E t \in Tasks :
    /\ Len(tasks[t].stack) = 2
    /\ tasks[t].stack[1].iter = 2
    /\ tasks[t].fwd = "waiting"
    /\ tasks[t].sent.host = GlueA.rdata
    /\ tasks[t].sent.port = 53
    /\ tasks[t].sent.query.questions = <<tasks[t].stack[1].q>>

\* C32: every response recursiveResolver returns has an rcode among NO_ERROR,
\* FORMAT_ERROR, SERVER_FAILURE and NAME_ERROR, whatever the rcodes of the
\* upstream replies.
C32_RcodeInRange ==
  \A t \in Tasks :
    (tasks[t].pc = "done" /\ tasks[t].result.kind = "packet") =>
      tasks[t].result.header.rcode \in {NO_ERROR, FORMAT_ERROR, SERVER_FAILURE, NAME_ERROR}

\* C33: every call of encode starts from an empty table: a second call of
\* encode on the same DNSPacket object yields the bytes of the first call.
C33_EncodeTwiceSame ==
  codec.phase = "encoded_twice" => codec.out = codec.buffer

\* every section of a decoded message has as many entries as its header says
SectionsComplete(m) ==
  /\ Len(m.questions) = m.header.qdcount
  /\ Len(m.answers) = m.header.ancount
  /\ Len(m.authorities) = m.header.nscount
  /\ Len(m.additionals) = m.header.arcount

\* C34: decoding a buffer that ends before a section its header announces
\* fails, and no decoded message has fewer entries in a section than its
\* header count for that section.
C34_TruncatedRejected ==
  /\ codec.phase = "received_decoded" => codec.result.kind = "error"
  /\ (codec.phase \in {"decoded", "received_decoded"} /\ codec.result.kind = "packet") =>
       SectionsComplete(codec.result)

\* the step in which the GET or SET command of a cache operation completes
CommandStep(t) ==
  \/ tasks[t].pc = "get_cmd" /\ tasks'[t].pc = "get_close"
  \/ tasks[t].pc = "set_cmd" /\ tasks'[t].pc = "set_close"

\* C35: with two resolutions in flight, the connection of the shared client is
\* open whenever the GET or SET command of a cache operation completes: no
\* close() of another operation comes between an operation's connect() and its
\* command, so that a get of a present key is answered with its value unless
\* the command itself fails.
C35_CommandsWhileOpen ==
  [][\A t \in Tasks :
       /\ CommandStep(t) => redisOpen
       /\ \A k \in Keys :
            (/\ tasks[t].pc = "get_cmd"
             /\ tasks'[t].pc = "get_close"
             /\ CacheKey(Question_(tasks[t])) = k
             /\ store[k].present
             /\ tasks'[t].cres.kind # "value") => redisOpen
    ]_vars

\* the rdata of the address records (type A, rdlength 4) of a section
AddressesOf(records) ==
  {records[i].rdata : i \in {j \in 1..Len(records) :
                               records[j].type = TYPE_A /\ records[j].rdlength = 4}}

\* C36: every upstream query goes to an IPv4 address: the first query of a
\* lookup call to a root hint, a query that follows a reply to the rdata of an
\* A record (rdlength 4) of the reply's additional section, and a query that
\* follows a nested lookup to the rdata of an A record among its answers.
C36_QueriesToAddresses ==
  [][\A t \in Tasks :
       QuerySentInStep(t) =>
         LET host == tasks'[t].sent.host
         IN IF FirstQueryInStep(t) THEN host \in RootHints
            ELSE IF tasks[t].fwd = "waiting"
                 THEN host \in AddressesOf(tasks'[t].reply.additionals)
                 ELSE host \in AddressesOf(tasks[t].ret.answers)
    ]_vars

\* the reply has no answers and additional records, none of them with rdlength 4
OnlyOtherGlue(resp) ==
  /\ Len(resp.answers) = 0
  /\ Len(resp.additionals) > 0
  /\ Len(V4Glue(resp)) = 0

\* the call returns, without another query and without a nested lookup, the
\* NAME_ERROR response of its catch block: the call's header and question and
\* three empty sections
BareNameErrorReturned(t) ==
  LET f == Head(tasks[t].stack)
      res == tasks'[t].ret
  IN /\ tasks'[t].stack = Tail(tasks[t].stack)
     /\ tasks'[t].fwd = "none"
     /\ tasks'[t].socks = 0
     /\ res.kind = "packet"
     /\ res.header = [f.hdr EXCEPT !.aa = 0, !.ra = 1, !.qr = RESPONSE,
                                   !.rcode = NAME_ERROR]
     /\ res.questions = <<f.q>>
     /\ res.answers = <<>>
     /\ res.authorities = <<>>
     /\ res.additionals = <<>>

\* C37 as stated: whenever a reply has no answers and additional records none
\* of which has rdlength 4, the call sends no further query, starts no lookup
\* for an NS name and returns NAME_ERROR with three empty sections.
C37_NoGlueNameErrorAlways ==
  [][\A t \in Tasks :
       (ReplyStep(t) /\ OnlyOtherGlue(tasks'[t].reply)) => BareNameErrorReturned(t)
    ]_vars

\* C37: whenever a reply whose rcode is not NAME_ERROR has no answers and
\* additional records none of which has rdlength 4, the call sends no further
\* query, starts no lookup for an NS name and returns NAME_ERROR with three
\* empty sections.
C37_NoGlueNameError ==
  [][\A t \in Tasks :
       (/\ ReplyStep(t)
        /\ tasks'[t].reply.header.rcode # NAME_ERROR
        /\ OnlyOtherGlue(tasks'[t].reply)) => BareNameErrorReturned(t)
    ]_vars

\* the top-level lookup has returned NAME_ERROR on a delegation with an NS
\* authority and IPv6 glue only
C37_Witness ==
  \E t \in Tasks :
    /\ tasks[t].pc = "lookup"
    /\ Len(tasks[t].stack) = 0
    /\ tasks[t].reply.kind = "packet"
    /\ tasks[t].reply.header.rcode = NO_ERROR
    /\ OnlyOtherGlue(tasks[t].reply)
    /\ Len(tasks[t].reply.authorities) > 0
    /\ tasks[t].ret.kind = "packet"
    /\ tasks[t].ret.header.rcode = NAME_ERROR
    /\ tasks[t].ret.authorities = <<>>

\* C38: no step of a lookup touches the cache: while a task is in
\* recursiveLookup its steps leave the store, the connection and the task's
\* cache result as they are; a nested lookup starts with a query to a root
\* hint; and a task's step changes the store only under the key of the client's
\* question at hand, to the full answer list the top-level lookup returned for
\* it.
C38_LookupLeavesCache ==
  [][\A t \in Tasks :
       LET tk == tasks[t]
           tn == tasks'[t]
       IN /\ (tk.pc = "lookup" /\ tn # tk) =>
               /\ store' = store
               /\ redisOpen' = redisOpen
               /\ tn.pc = "lookup" => tn.cres = tk.cres
          /\ (tk.pc = "lookup" /\ Len(tn.stack) > Len(tk.stack)) =>
               /\ tn.sent.host \in RootHints
               /\ Head(tn.stack).iter = 1
          /\ \A k \in Keys :
               (store'[k] # store[k] /\ tn # tk) =>
                 /\ tk.pc = "set_cmd"
                 /\ k = CacheKey(tk.req.questions[tk.qi])
                 /\ tk.resps[tk.qi].questions = <<tk.req.questions[tk.qi]>>
                 /\ JSONparse(store'[k].val) = tk.resps[tk.qi].answers
    ]_vars

\* the answers of a lookup that followed an alias are stored under the client's
\* question: the alias and what the nested lookup returned
C38_Witness ==
  \E t \in Tasks :
    LET k == CacheKey(ClientQuestion)
    IN /\ tasks[t].pc = "set_close"
       /\ tasks[t].nested > 0
       /\ store[k].present
       /\ Len(JSONparse(store[k].val)) = 2
       /\ JSONparse(store[k].val)[1].type = TYPE_CNAME
       /\ JSONparse(store[k].val) = LastResponse(tasks[t]).answers

\* no answers, no additionals, and no authority record whose rdata is a valid
\* name
NoUsableAuthority(resp) ==
  /\ Len(resp.answers) = 0
  /\ Len(resp.additionals) = 0
  /\ \A i \in 1..Len(resp.authorities) : ~isValidDomain(StringOf(resp.authorities[i]))

\* the call returns in this step, without a query and without a nested lookup,
\* a NAME_ERROR response with qr=1, aa=0, ra=1 that carries the authorities
\* auths, their number as nscount, and no additionals
NoServerReturned(t, auths) ==
  LET res == tasks'[t].ret
  IN /\ tasks'[t].stack = Tail(tasks[t].stack)
     /\ tasks'[t].fwd = "none"
     /\ tasks'[t].socks = 0
     /\ res.kind = "packet"
     /\ res.header.qr = RESPONSE
     /\ res.header.aa = 0
     /\ res.header.ra = 1
     /\ res.header.rcode = NAME_ERROR
     /\ res.header.nscount = Len(auths)
     /\ res.authorities = auths
     /\ res.additionals = <<>>

\* C39: a call never tries a second candidate: when a reply has no answers, no
\* additionals and no authority with a valid name, and when the nested lookup
\* for the chosen NS name comes back without answers, the call returns at once
\* NAME_ERROR (qr=1, aa=0, ra=1) with the authorities it received, nscount
\* their number, and no additionals.
C39_NoRetry ==
  [][\A t \in Tasks :
       /\ (ReplyStep(t) /\ NoUsableAuthority(tasks'[t].reply)) =>
            NoServerReturned(t, tasks'[t].reply.authorities)
       /\ (NsReturnStep(t) /\ Len(tasks[t].ret.answers) = 0) =>
            NoServerReturned(t, Head(tasks[t].stack).auths)
    ]_vars

\* a call has returned NAME_ERROR with the NS record it received, after the
\* nested lookup for the name server came back without answers
C39_Witness ==
  \E t \in Tasks :
    /\ tasks[t].pc = "lookup"
    /\ Len(tasks[t].stack) = 0
    /\ tasks[t].nested = 1
    /\ tasks[t].ret.kind = "packet"
    /\ tasks[t].ret.header.rcode = NAME_ERROR
    /\ tasks[t].ret.header.nscount = 1
    /\ tasks[t].ret.authorities = <<NsRecord>>

====
